---- MODULE Spec2Model ----
(***************************************************************************)
(* Model of the EdRoom backend: the response cache (backend_cache.py), the *)
(* translation + moderation pipeline (Language_Bridge_Agent.py,            *)
(* Content_Moderation_Agent.py) and the chat endpoint that sequences them  *)
(* (api_server.py, chat_endpoint).                                         *)
(*                                                                         *)
(* Text is a sequence of one-character strings, so that lower(), strip()   *)
(* and replace() of _normalize_key are computed.  A reply is a record of   *)
(* the annotation prefixes put before it, the language it is written in    *)
(* and its response parts in generation order.                             *)
(***************************************************************************)
EXTENDS Integers, Sequences, FiniteSets, TLC

(***************************************************************************)
(* Bounds of the model.  max_entries and default_ttl are the constructor   *)
(* parameters of BackendCache (200 entries and 3600 s in the process-wide  *)
(* instance); the model runs the same code with small values so that       *)
(* eviction and expiry happen.                                             *)
(***************************************************************************)
max_entries == 2
default_ttl == 1
MaxTime == 2
MaxRequests == 2

\* user_message[:100], backend_cache.py line 96
TruncLen == 100

None == [none |-> TRUE]

Min(a, b) == IF a < b THEN a ELSE b

(***************************************************************************)
(* Text                                                                    *)
(***************************************************************************)
Whitespace == {" ", "\n", "\r", "\t"}

LowerChar(ch) ==
    CASE ch = "H" -> "h"
      [] ch = "I" -> "i"
      [] ch = "Y" -> "y"
      [] ch = "O" -> "o"
      [] OTHER -> ch

\* The one value of a singleton set: Only({e}) evaluates e once.
Only(singleton) == CHOOSE v \in singleton : TRUE

Lower(s) == Only({[i \in 1..Len(v) |-> LowerChar(v[i])] : v \in {s}})

\* The positions of s that hold no whitespace.
Inked(s) == UNION {{i \in 1..Len(v) : v[i] \notin Whitespace} : v \in {s}}

\* str.strip(): from the first to the last position that holds no whitespace.
Strip(s) ==
    Only({IF ink = {} THEN <<>>
          ELSE SubSeq(v, CHOOSE i \in ink : \A j \in ink : i <= j,
                         CHOOSE i \in ink : \A j \in ink : j <= i) :
          <<v, ink>> \in {<<s, Inked(s)>>}})

\* s.replace('\n', ' ').replace('\r', '')
ReplaceNewlines(s) ==
    Only({SelectSeq([i \in 1..Len(v) |-> IF v[i] = "\n" THEN " " ELSE v[i]],
                    LAMBDA ch : ch # "\r") : v \in {s}})

Truncate(s, n) == SubSeq(s, 1, Min(n, Len(s)))

\* `not text or not text.strip()`
IsBlank(s) == Strip(s) = <<>>

(***************************************************************************)
(* BackendCache.  The store is a Python dict: a sequence of entries in     *)
(* insertion order, at most one per key.                                   *)
(***************************************************************************)
_normalize_key(text) ==
    IF text = <<>> THEN <<>> ELSE ReplaceNewlines(Strip(Lower(text)))

\* md5(...)[:16] of "<normalized>|pdf:<has_pdf>": the digest is modelled as
\* the pair it is computed from (no two inputs of the model collide).
_generate_key(user_message, has_pdf) ==
    [text |-> _normalize_key(user_message), pdf |-> has_pdf]

FieldOr(d, k, default) == IF k \in DOMAIN d THEN d[k] ELSE default

KeysOf(c) == {c[i].key : i \in 1..Len(c)}

IndexOf(c, key) == CHOOSE i \in 1..Len(c) : c[i].key = key

\* Variant: an entry already counts as expired when its age equals its TTL.
ExpiredAtTtl(entry, t) == t - entry.timestamp >= entry.ttl

Expired(entry, t) == t - entry.timestamp > entry.ttl

_cleanup_expired(c, t) == SelectSeq(c, LAMBDA e : ~Expired(e, t))

\* sorted(items, key=timestamp): a stable insertion sort.
RECURSIVE InsertByTimestamp(_, _)
InsertByTimestamp(sorted, e) ==
    IF sorted = <<>> THEN <<e>>
    ELSE IF sorted[Len(sorted)].timestamp <= e.timestamp THEN Append(sorted, e)
    ELSE Append(InsertByTimestamp(SubSeq(sorted, 1, Len(sorted) - 1), e),
                sorted[Len(sorted)])

RECURSIVE SortedByTimestamp(_)
SortedByTimestamp(c) ==
    IF c = <<>> THEN <<>>
    ELSE InsertByTimestamp(SortedByTimestamp(SubSeq(c, 1, Len(c) - 1)), c[Len(c)])

\* Variant: no entry is removed.
_enforce_size_limit_off(c) == c

\* Variant: the newest entries are removed.
_enforce_size_limit_newest(c) ==
    IF Len(c) <= max_entries THEN c
    ELSE LET sorted_items == SortedByTimestamp(c)
             removed == {sorted_items[i].key : i \in (max_entries + 1)..Len(c)}
         IN  SelectSeq(c, LAMBDA e : e.key \notin removed)

_enforce_size_limit(c) ==
    IF Len(c) <= max_entries THEN c
    ELSE LET sorted_items == SortedByTimestamp(c)
             entries_to_remove == Len(c) - max_entries
             removed == {sorted_items[i].key : i \in 1..entries_to_remove}
         IN  SelectSeq(c, LAMBDA e : e.key \notin removed)

\* A reply text: annotation prefixes, language, response parts in order.
Reply(prefix, lang, body) == [prefix |-> prefix, lang |-> lang, body |-> body]

\* Variant: the reply is passed on without the annotation.
Annotate_dropped(tag, reply) == reply

Annotate(tag, reply) == [reply EXCEPT !.prefix = <<tag>> \o @]

EmptyText == Reply(<<>>, "en", <<>>)

\* Variant: the approval flag of the payload is not kept.
cached_response_always_approved(response_data) ==
    [bot_response |-> FieldOr(response_data, "bot_response", EmptyText),
     translation_info |-> FieldOr(response_data, "translation_info", None),
     explanation_result |-> FieldOr(response_data, "explanation_result", None),
     final_approved |-> TRUE,
     success |-> FieldOr(response_data, "success", TRUE)]

\* The minimal response fields that put stores.
cached_response(response_data) ==
    [bot_response |-> FieldOr(response_data, "bot_response", EmptyText),
     translation_info |-> FieldOr(response_data, "translation_info", None),
     explanation_result |-> FieldOr(response_data, "explanation_result", None),
     final_approved |-> FieldOr(response_data, "final_approved", TRUE),
     success |-> FieldOr(response_data, "success", TRUE)]

\* `ttl or self.default_ttl`: ttl is <<>> for None, <<n>> for an override.
cache_ttl(ttl) == IF ttl = <<>> \/ ttl[1] = 0 THEN default_ttl ELSE ttl[1]

StoreEntry(c, e) ==
    IF e.key \in KeysOf(c)
    THEN [c EXCEPT ![IndexOf(c, e.key)] = e]
    ELSE Append(c, e)

put(c, user_message, response_data, has_pdf, ttl, t) ==
    LET e == [key |-> _generate_key(user_message, has_pdf),
              value |-> cached_response(response_data),
              timestamp |-> t,
              ttl |-> cache_ttl(ttl),
              original_message |-> Truncate(user_message, TruncLen)]
    IN  _enforce_size_limit(_cleanup_expired(StoreEntry(c, e), t))

\* get: the store after the call and the value returned.
get(c, user_message, has_pdf, t) ==
    LET key == _generate_key(user_message, has_pdf)
    IN  IF key \notin KeysOf(c) THEN [cache |-> c, result |-> None]
        ELSE LET entry == c[IndexOf(c, key)]
             IN  IF Expired(entry, t)
                 THEN [cache |-> SelectSeq(c, LAMBDA e : e.key # key),
                       result |-> None]
                 ELSE [cache |-> c, result |-> entry.value]

clear(c) == <<>>

(***************************************************************************)
(* Collaborator outcomes.  Every external call either throws or returns    *)
(* one of a few representative answers.  Scores are in hundredths.         *)
(***************************************************************************)
\* translate_client.detect_language / get_languages
DetectOutcomes == {"throws", "en", "ur"}

\* translate_client.translate(text, source, "en")
TranslateOutcomes == {[throws |-> TRUE],
                      [throws |-> FALSE, translatedText |-> <<"h", "i">>],
                      [throws |-> FALSE, translatedText |-> <<>>]}

Categories == {<<>>, <<"VULGAR">>}
Severities == {0, 29, 30, 31}

\* self.llm.invoke(...): an exception, text that is not JSON, or a JSON
\* object (whose fields are all optional for the reader).
ModerateOutcomes ==
    {[kind |-> "throws"], [kind |-> "unparseable"], [kind |-> "json", content |-> [analysis |-> "a"]]}
    \cup {[kind |-> "json",
           content |-> [inappropriate_categories |-> c, severity_score |-> sv,
                        confidence |-> 90, explanation |-> "llm"]] :
          c \in Categories, sv \in Severities}

\* The same, and a completion that is valid JSON but no object.
ModerateAnswers == ModerateOutcomes \cup {[kind |-> "json_value"]}

LanguageName(code) ==
    CASE code = "en" -> "English"
      [] code = "ur" -> "Urdu"
      [] OTHER -> "Language (code)"

LowerCode(code) == IF code = "EN" THEN "en" ELSE code

\* What the detection answered, as an event of the request's log.
Detected(code) == IF code = "en" THEN "detected:en" ELSE "detected:other"

(***************************************************************************)
(* LanguageBridgeAgent.process_text: validate_input -> detect_language ->  *)
(* check_english -> (translate_text) -> finalize_output.  `calls` lists    *)
(* the collaborator calls made, in order.                                  *)
(***************************************************************************)
\* len(input_text) > 30000, Language_Bridge_Agent.py line 124
MaxTranslateLen == 30000
\* len(input_text) > 10000, Content_Moderation_Agent.py line 120
MaxModerateLen == 10000
\* severity_score < 0.3, Content_Moderation_Agent.py line 279
SeverityThreshold == 30
\* "confidence": 0.5 of the fallback analysis, Content_Moderation_Agent.py line 190
FallbackConfidence == 50

InitialAgentState(input_text) ==
    [input_text |-> input_text, detected_language |-> "",
     detected_language_code |-> "", confidence |-> 0,
     translated_text |-> <<>>, is_english |-> FALSE,
     error |-> "", step |-> "initialized", calls |-> <<>>]

_validate_input_node(state) ==
    IF Strip(state.input_text) = <<>>
    THEN [state EXCEPT !.error = "empty_input", !.step = "validation_failed"]
    ELSE IF Len(Strip(state.input_text)) > MaxTranslateLen
    THEN [state EXCEPT !.error = "text_too_long", !.step = "validation_failed"]
    ELSE [state EXCEPT !.step = "input_validated"]

_detect_language_node(state, det) ==
    IF state.error # "" THEN state
    ELSE IF det = "throws"
    THEN [state EXCEPT !.error = "detection_failed", !.step = "detection_failed",
                       !.calls = Append(@, "translate_client.detect_language")]
    ELSE [state EXCEPT !.detected_language_code = det,
                       !.detected_language = LanguageName(det),
                       !.confidence = 99,
                       !.step = "language_detected",
                       !.calls = @ \o <<"translate_client.detect_language",
                                         Detected(det)>>]

_check_english_node(state) ==
    IF state.error # "" THEN state
    ELSE LET is_english == LowerCode(state.detected_language_code) = "en"
         IN  [state EXCEPT !.is_english = is_english,
                           !.step = "english_check_complete",
                           !.translated_text =
                               IF is_english THEN state.input_text ELSE @]

\* Variant: every validated text is sent to translation.
_routing_decision_always_translates(state) ==
    IF state.error # "" THEN "error" ELSE "needs_translation"

_routing_decision(state) ==
    IF state.error # "" THEN "error"
    ELSE IF state.is_english THEN "already_english"
    ELSE "needs_translation"

_translate_text_node(state, tr) ==
    IF state.error # "" THEN state
    ELSE IF tr.throws
    THEN [state EXCEPT !.error = "translation_failed", !.step = "translation_failed",
                       !.calls = Append(@, "translate_client.translate")]
    ELSE [state EXCEPT !.translated_text = tr.translatedText,
                       !.step = "translation_complete",
                       !.calls = Append(@, "translate_client.translate")]

_finalize_output_node(state) == [state EXCEPT !.step = "processing_complete"]

process_text(input_text, det, tr) ==
    LET s1 == _validate_input_node(InitialAgentState(input_text))
        s2 == _detect_language_node(s1, det)
        s3 == _check_english_node(s2)
        s4 == IF _routing_decision(s3) = "needs_translation"
              THEN _translate_text_node(s3, tr) ELSE s3
        final_state == _finalize_output_node(s4)
    IN  [success |-> final_state.error = "",
         input_text |-> final_state.input_text,
         detected_language |-> final_state.detected_language,
         detected_language_code |-> final_state.detected_language_code,
         confidence |-> final_state.confidence,
         translated_text |-> final_state.translated_text,
         is_english |-> final_state.is_english,
         error |-> final_state.error,
         calls |-> final_state.calls]

(***************************************************************************)
(* ContentModerationAgent.moderate_content: validate_input ->              *)
(* analyze_content -> classify_content -> make_decision -> finalize_result *)
(***************************************************************************)
InitialModerationState(input_text) ==
    [input_text |-> input_text, moderation_result |-> [none |-> TRUE],
     approved |-> FALSE, confidence |-> 0, flagged_categories |-> <<>>,
     explanation |-> "", severity_score |-> 0, error |-> "",
     step |-> "initialized", calls |-> <<>>]

mod_validate_input_node(state) ==
    IF Strip(state.input_text) = <<>>
    THEN [state EXCEPT !.error = "empty_input", !.step = "validation_failed",
                       !.approved = FALSE]
    ELSE IF Len(Strip(state.input_text)) > MaxModerateLen
    THEN [state EXCEPT !.error = "text_too_long", !.step = "validation_failed",
                       !.approved = FALSE]
    ELSE [state EXCEPT !.step = "input_validated"]

_analyze_content_node(state, llm) ==
    IF state.error # "" THEN state
    ELSE IF llm.kind = "throws"
    THEN [state EXCEPT !.error = "analysis_failed", !.step = "analysis_failed",
                       !.approved = FALSE,
                       !.calls = @ \o <<"moderation_llm.invoke",
                                         "moderation_llm.raised">>]
    ELSE [state EXCEPT
            !.moderation_result =
                IF llm.kind = "unparseable"
                THEN [analysis |-> "raw", inappropriate_categories |-> <<>>,
                      severity_score |-> 0, confidence |-> FallbackConfidence,
                      explanation |-> "unexpected_format"]
                ELSE IF llm.kind = "json_value" THEN [not_an_object |-> TRUE]
                ELSE llm.content,
            !.step = "content_analyzed",
            !.calls = Append(@, "moderation_llm.invoke")]

\* moderation_result.get(...) raises AttributeError on parsed JSON that is no
\* object (a list, a string, a number, null); the node's except clause
\* records the error.
_classify_content_node(state) ==
    IF state.error # "" THEN state
    ELSE IF "not_an_object" \in DOMAIN state.moderation_result
    THEN [state EXCEPT !.error = "classification_failed",
                       !.step = "classification_failed", !.approved = FALSE]
    ELSE [state EXCEPT
            !.flagged_categories =
                FieldOr(state.moderation_result, "inappropriate_categories", <<>>),
            !.severity_score = FieldOr(state.moderation_result, "severity_score", 0),
            !.confidence = FieldOr(state.moderation_result, "confidence", 0),
            !.explanation =
                FieldOr(state.moderation_result, "explanation", "No explanation provided"),
            !.step = "content_classified"]

\* Variant: the severity threshold itself is still accepted.
_make_decision_node_inclusive(state) ==
    IF state.error # "" THEN state
    ELSE [state EXCEPT
            !.approved = (Len(state.flagged_categories) = 0
                          /\ state.severity_score <= SeverityThreshold),
            !.step = "decision_made"]

\* Variant: the decision is taken even when an earlier node recorded an error.
_make_decision_node_despite_error(state) ==
    [state EXCEPT
        !.approved = (Len(state.flagged_categories) = 0
                      /\ state.severity_score < SeverityThreshold),
        !.step = "decision_made"]

_make_decision_node(state) ==
    IF state.error # "" THEN state
    ELSE [state EXCEPT
            !.approved = (Len(state.flagged_categories) = 0
                          /\ state.severity_score < SeverityThreshold),
            !.step = "decision_made"]

_finalize_result_node(state) == [state EXCEPT !.step = "moderation_complete"]

moderate_content(input_text, llm) ==
    LET final_state ==
            _finalize_result_node(_make_decision_node(_classify_content_node(
                _analyze_content_node(
                    mod_validate_input_node(InitialModerationState(input_text)), llm))))
    IN  [success |-> final_state.error = "",
         approved |-> final_state.approved,
         confidence |-> final_state.confidence,
         flagged_categories |-> final_state.flagged_categories,
         explanation |-> final_state.explanation,
         severity_score |-> final_state.severity_score,
         error |-> final_state.error,
         processing_step |-> final_state.step,
         calls |-> final_state.calls]

(***************************************************************************)
(* process_with_moderation: build both agents, translate, then moderate    *)
(* the translated text.  agents_ok is FALSE when an agent constructor      *)
(* raises (missing credentials); the outer except turns that into a        *)
(* failure result.                                                         *)
(***************************************************************************)
\* Variant: the moderation call is made before the translation calls.
process_with_moderation_moderates_first(input_text, agents_ok, det, tr, llm) ==
    IF ~agents_ok
    THEN [success |-> FALSE, input_text |-> input_text, final_approved |-> FALSE,
          error |-> "integration_failed", step |-> "integration_failed",
          calls |-> <<>>]
    ELSE
    LET translation_result == process_text(input_text, det, tr)
        moderation_result == moderate_content(translation_result.translated_text, llm)
    IN  IF ~translation_result.success
        THEN [success |-> FALSE, input_text |-> input_text,
              final_approved |-> FALSE,
              error |-> translation_result.error, step |-> "translation_failed",
              calls |-> translation_result.calls]
        ELSE IF ~moderation_result.success
        THEN [success |-> FALSE, input_text |-> input_text,
              final_approved |-> FALSE,
              error |-> moderation_result.error, step |-> "moderation_failed",
              calls |-> moderation_result.calls \o translation_result.calls]
        ELSE [success |-> TRUE, input_text |-> input_text,
              original_language |-> translation_result.detected_language,
              original_language_code |-> translation_result.detected_language_code,
              translation_confidence |-> translation_result.confidence,
              translated_text |-> translation_result.translated_text,
              is_english |-> translation_result.is_english,
              moderation_approved |-> moderation_result.approved,
              moderation_confidence |-> moderation_result.confidence,
              flagged_categories |-> moderation_result.flagged_categories,
              moderation_explanation |-> moderation_result.explanation,
              severity_score |-> moderation_result.severity_score,
              final_approved |-> moderation_result.approved,
              error |-> "", step |-> "completed",
              calls |-> moderation_result.calls \o translation_result.calls]

process_with_moderation(input_text, agents_ok, det, tr, llm) ==
    IF ~agents_ok
    THEN [success |-> FALSE, input_text |-> input_text, final_approved |-> FALSE,
          error |-> "integration_failed", step |-> "integration_failed",
          calls |-> <<>>]
    ELSE
    LET translation_result == process_text(input_text, det, tr)
        moderation_result == moderate_content(translation_result.translated_text, llm)
    IN  IF ~translation_result.success
        THEN [success |-> FALSE, input_text |-> input_text,
              final_approved |-> FALSE,
              error |-> translation_result.error, step |-> "translation_failed",
              calls |-> translation_result.calls]
        ELSE IF ~moderation_result.success
        THEN [success |-> FALSE, input_text |-> input_text,
              final_approved |-> FALSE,
              error |-> moderation_result.error, step |-> "moderation_failed",
              calls |-> translation_result.calls \o moderation_result.calls]
        ELSE [success |-> TRUE, input_text |-> input_text,
              original_language |-> translation_result.detected_language,
              original_language_code |-> translation_result.detected_language_code,
              translation_confidence |-> translation_result.confidence,
              translated_text |-> translation_result.translated_text,
              is_english |-> translation_result.is_english,
              moderation_approved |-> moderation_result.approved,
              moderation_confidence |-> moderation_result.confidence,
              flagged_categories |-> moderation_result.flagged_categories,
              moderation_explanation |-> moderation_result.explanation,
              severity_score |-> moderation_result.severity_score,
              final_approved |-> moderation_result.approved,
              error |-> "", step |-> "completed",
              calls |-> translation_result.calls \o moderation_result.calls]

(***************************************************************************)
(* Similarity search and fallback of the cache                             *)
(***************************************************************************)
\* The set of words of str.split(): maximal runs of non-whitespace.
WordStarts(s) == {i \in Inked(s) : i = 1 \/ s[i - 1] \in Whitespace}

WordEnds(s) == {j \in Inked(s) : j = Len(s) \/ s[j + 1] \in Whitespace}

Words(s) ==
    UNION {{SubSeq(v, i, CHOOSE j \in ends : j >= i /\ \A k \in ends : k >= i => j <= k) :
            i \in WordStarts(v)} :
           <<v, ends>> \in {<<s, WordEnds(s)>>}}

\* similarity_threshold = 0.3, backend_cache.py line 208, in tenths
SimilarityTenths == 3

\* One pass over cache.values(): best is <<match, intersection, union>> with
\* score intersection/union (0/1 at the start); fractions are compared
\* by cross-multiplication.
RECURSIVE BestMatch(_, _, _)
BestMatch(c, input_words, best) ==
    IF c = <<>> THEN best
    ELSE LET cached_words == Words(_normalize_key(Head(c).original_message))
             inter == Cardinality(input_words \cap cached_words)
             union == Cardinality(input_words \cup cached_words)
         IN  IF cached_words = {} THEN BestMatch(Tail(c), input_words, best)
             ELSE IF inter * best.union > best.inter * union
                     /\ inter * 10 >= SimilarityTenths * union
             THEN BestMatch(Tail(c), input_words,
                            [match |-> Head(c).value, inter |-> inter, union |-> union])
             ELSE BestMatch(Tail(c), input_words, best)

_find_similar_cached_response(c, user_message) ==
    BestMatch(c, Words(_normalize_key(user_message)),
              [match |-> None, inter |-> 0, union |-> 1]).match

\* Variant: the search hands out the stored dict itself, so the annotation
\* of line 157 is written into the entry.
store_after_fallback_aliased(c, user_message) ==
    LET similar_response == _find_similar_cached_response(c, user_message)
    IN  [i \in 1..Len(c) |->
            IF similar_response # None /\ c[i].value = similar_response
            THEN [c[i] EXCEPT !.value.bot_response =
                                  Annotate("[Cached Response] similar", @)]
            ELSE c[i]]

\* The store after get_fallback_response: line 236 hands out
\* entry['value'].copy(), so the assignment of line 157 writes the copy.
store_after_fallback(c, user_message) == c

get_fallback_response(c, user_message, error_context) ==
    LET similar_response == _find_similar_cached_response(c, user_message)
    IN  IF similar_response # None
        THEN [similar_response EXCEPT
                !.bot_response = Annotate("[Cached Response] similar", @)]
        ELSE [bot_response |-> Reply(<<>>, "en", <<"fallback_mode">>),
              success |-> TRUE, final_approved |-> TRUE,
              translation_info |-> None, explanation_result |-> None,
              is_fallback |-> TRUE]

(***************************************************************************)
(* Remaining collaborators of the chat endpoint                            *)
(***************************************************************************)
\* openai_client.chat.completions.create(...) of classify_user_intent
IntentOutcomes ==
    {[kind |-> "throws"]}
    \cup {[kind |-> "json", intent |-> i, confidence |-> cf] :
          i \in {"grading", "explanation", "general"}, cf \in {50, 150}}

\* explanation_agent.get_explanation(...): it catches its own errors and
\* then returns an apology sentence as the explanation.
ExplainOutcomes == {"failed", "ok"}

\* translate_response_to_user_language: the translate call raises or the
\* text is translated.
BackTranslateOutcomes == {"throws", "ok"}

\* grade_assignment_from_blob
GradeOutcomes ==
    {[kind |-> "init_raises"], [kind |-> "no_text"]}
    \cup {[kind |-> "graded", marks |-> mk] : mk \in {60, 120}}

Clamp01(cf) == IF cf < 0 THEN 0 ELSE IF cf > 100 THEN 100 ELSE cf

classify_user_intent(client, out) ==
    IF ~client THEN [intent |-> "unknown", confidence |-> 0, calls |-> <<>>]
    ELSE IF out.kind = "throws"
    THEN [intent |-> "general", confidence |-> 0,
          calls |-> <<"openai_client.classify">>]
    ELSE [intent |-> out.intent, confidence |-> Clamp01(out.confidence),
          calls |-> <<"openai_client.classify">>]

\* intent_result["confidence"] > 0.5, api_server.py lines 447-448
IntentThreshold == 50

\* Variant: every target language is treated as English and skipped.
translate_response_to_user_language_skips(response_text, target_language_code, bt) ==
    [success |-> TRUE, skipped |-> TRUE, translated_text |-> response_text,
     calls |-> <<>>]

translate_response_to_user_language(response_text, target_language_code, bt) ==
    IF LowerCode(target_language_code) \in {"en", "english"}
    THEN [success |-> TRUE, skipped |-> TRUE, translated_text |-> response_text,
          calls |-> <<>>]
    ELSE IF target_language_code = ""
    THEN [success |-> FALSE, skipped |-> FALSE, translated_text |-> response_text,
          calls |-> <<>>]
    ELSE IF bt = "throws"
    THEN [success |-> FALSE, skipped |-> FALSE, translated_text |-> response_text,
          calls |-> <<"translate_client.translate">>]
    ELSE [success |-> TRUE, skipped |-> FALSE,
          translated_text |-> [response_text EXCEPT !.lang = target_language_code],
          calls |-> <<"translate_client.translate">>]

\* Variant: the magic bytes are not looked at.
validate_pdf_blob_accepts_all(pdf_file) == TRUE

validate_pdf_blob(pdf_file) == pdf_file = "valid"

\* Variant: a percentage on a threshold falls into the band below it.
grade_level_exclusive(percentage) ==
    IF percentage > 90 THEN "Excellent"
    ELSE IF percentage > 80 THEN "Very Good"
    ELSE IF percentage > 70 THEN "Good"
    ELSE IF percentage > 60 THEN "Satisfactory"
    ELSE IF percentage > 50 THEN "Needs Improvement"
    ELSE "Unsatisfactory"

\* api_server.py lines 581-598
grade_level(percentage) ==
    IF percentage >= 90 THEN "Excellent"
    ELSE IF percentage >= 80 THEN "Very Good"
    ELSE IF percentage >= 70 THEN "Good"
    ELSE IF percentage >= 60 THEN "Satisfactory"
    ELSE IF percentage >= 50 THEN "Needs Improvement"
    ELSE "Unsatisfactory"

(***************************************************************************)
(* State                                                                   *)
(***************************************************************************)
VARIABLES
    cache,           \* cache_instance.cache, in dict order
    now,             \* the last reading of the clock (time.time())
    pc,              \* where the request being served is
    req,             \* the ChatMessage being served
    loc,             \* the locals of chat_endpoint
    log,             \* collaborator calls and cache operations of the request
    resp,            \* the ChatResponse returned
    served,          \* number of requests received
    last_op          \* the last direct call of the cache API and its result

vars == <<cache, now, pc, req, loc, log, resp, served, last_op>>

\* A reading of the clock: it never runs backwards.
Clock == now..MaxTime

Messages == {<<>>, <<" ">>, <<"H", "i">>}
PdfFiles == {"none", "valid", "invalid"}

\* bool(request.pdf_file)
HasPdf(r) == r.pdf_file # "none"

NoReq == [message |-> <<>>, pdf_file |-> "none"]
NoLoc == [none |-> TRUE]
NoOp == [op |-> "none"]

InitLoc ==
    [translation_info |-> None, moderation_info |-> None,
     grading_result |-> None, explanation_result |-> None,
     final_approved |-> TRUE, bot_response_parts |-> <<>>,
     original_language_code |-> "", should_grade_pdf |-> FALSE,
     result |-> None, rubric |-> ""]

ChatResponse(success, user_message, bot_response, translation_info, moderation_info, grading_result, explanation_result, final_approved, error, t) ==
    [success |-> success, user_message |-> user_message,
     bot_response |-> bot_response, translation_info |-> translation_info,
     moderation_info |-> moderation_info, grading_result |-> grading_result,
     explanation_result |-> explanation_result,
     final_approved |-> final_approved, timestamp |-> t, error |-> error]

Init ==
    /\ cache = <<>>
    /\ now = 0
    /\ pc = "idle"
    /\ req = NoReq
    /\ loc = NoLoc
    /\ log = <<>>
    /\ resp = None
    /\ served = 0
    /\ last_op = NoOp

(***************************************************************************)
(* chat_endpoint                                                           *)
(***************************************************************************)
InRequest == pc \in {"step1", "step2", "step3", "respond"}

\* `request.message or "PDF file uploaded"`
PdfUploaded == <<"P", "D", "F">>

MessageOr(message, default) == IF message = <<>> THEN default ELSE message

\* Variant: only the empty string counts as no message.
IsEmptyRequestUnstripped(request) == request.message = <<>> /\ ~HasPdf(request)

\* Line 376: neither a message nor a document.
IsEmptyRequest(request) == IsBlank(request.message) /\ ~HasPdf(request)

\* Variant: the cache is consulted whether or not a document is attached.
ChecksCache_with_document(request) == ~IsBlank(request.message)

\* Line 390: the cache is consulted for text messages without a document.
ChecksCache(request) == ~IsBlank(request.message) /\ ~HasPdf(request)

\* Line 667: which responses are stored.
CachesResponse(request, final_approved) ==
    ~IsBlank(request.message) /\ ~HasPdf(request) /\ final_approved

\* Lines 690-692: the handler's fallback applies to these requests.
fallback_message(request) == MessageOr(request.message, PdfUploaded)

\* Variant: the fallback is tried for requests with a document too.
TriesFallbackWithPdf(request) == ~IsBlank(fallback_message(request))

TriesFallback(request) == ~IsBlank(fallback_message(request)) /\ ~HasPdf(request)

\* Variant: a rejected message keeps the grading decision of the intent.
should_grade_pdf_kept(should_grade_pdf) == should_grade_pdf

\* Lines 512-514: a rejected message disables grading.
should_grade_pdf_when_rejected(should_grade_pdf) == FALSE

\* Lines 375-406: input validation and the cache check.
Receive(message, pdf_file, t) ==
    /\ pc \in {"idle", "done"}
    /\ served < MaxRequests
    /\ served' = served + 1
    /\ LET request == [message |-> message, pdf_file |-> pdf_file]
           looked == get(cache, message, FALSE, t)
       IN  /\ req' = request
           /\ IF IsEmptyRequest(request)
              THEN /\ resp' = ChatResponse(FALSE, message,
                                 Reply(<<>>, "en", <<"please_enter_message">>),
                                 None, None, None, None, FALSE, "Empty input", t)
                   /\ pc' = "done"
                   /\ log' = <<"return:empty_input">>
                   /\ loc' = NoLoc
                   /\ cache' = cache
              ELSE IF ChecksCache(request)
              THEN /\ cache' = looked.cache
                   /\ IF looked.result # None
                      THEN /\ resp' = ChatResponse(looked.result.success, message,
                                         Annotate("[Cached Response]",
                                                  looked.result.bot_response),
                                         looked.result.translation_info, None, None,
                                         looked.result.explanation_result,
                                         looked.result.final_approved, "", t)
                           /\ pc' = "done"
                           /\ log' = <<"cache.get", "return:cache_hit">>
                           /\ loc' = NoLoc
                      ELSE /\ resp' = None
                           /\ pc' = "step1"
                           /\ log' = <<"cache.get">>
                           /\ loc' = InitLoc
              ELSE /\ cache' = cache
                   /\ resp' = None
                   /\ pc' = IF IsBlank(message) THEN "step3" ELSE "step1"
                   /\ log' = <<>>
                   /\ loc' = InitLoc
    /\ now' = t
    /\ UNCHANGED last_op

\* How the translation + moderation stage ended, as an event of the log.
StageOutcome(result) ==
    IF ~result.success THEN "stage:failed"
    ELSE IF result.final_approved THEN "stage:approved"
    ELSE "stage:rejected"

\* Variant: a failed stage composes nothing.
stage_failure_no_parts(bot_response_parts) == bot_response_parts

\* Line 517: the part composed when the stage call reports failure.
stage_failure_parts(bot_response_parts) ==
    Append(bot_response_parts, "could_not_process")

\* Lines 408-413 and 423-424: final_approved starts TRUE and is taken from
\* the stage result only when the stage call succeeded.
final_approved_after_stage(final_approved, result) ==
    IF result.success THEN result.final_approved ELSE final_approved

\* Lines 417-442 and 515-518: translation and moderation of the message.
Step1(agents_ok, det, tr, llm) ==
    /\ pc = "step1"
    /\ \E result \in {process_with_moderation(req.message, agents_ok, det, tr, llm)} :
           /\ log' = log \o <<"process_with_moderation">> \o result.calls
                         \o <<StageOutcome(result)>>
           /\ IF result.success
              THEN /\ loc' = [loc EXCEPT
                        !.result = result,
                        !.final_approved = final_approved_after_stage(@, result),
                        !.original_language_code =
                            IF ~result.is_english
                            THEN result.original_language_code ELSE @,
                        !.translation_info =
                            IF ~result.is_english
                            THEN [original_language |-> result.original_language,
                                  translated_text |-> result.translated_text,
                                  confidence |-> result.translation_confidence]
                            ELSE @,
                        !.moderation_info =
                            [approved |-> result.moderation_approved,
                             confidence |-> result.moderation_confidence,
                             flagged_categories |-> result.flagged_categories,
                             explanation |-> result.moderation_explanation]]
                   /\ pc' = "step2"
              ELSE /\ loc' = [loc EXCEPT
                        !.result = result,
                        !.final_approved = final_approved_after_stage(@, result),
                        !.bot_response_parts = stage_failure_parts(@),
                        !.should_grade_pdf = FALSE]
                   /\ pc' = "step3"
    /\ UNCHANGED <<cache, now, req, resp, served,
                   last_op>>

ExplanationPart(lang, outcome) ==
    CASE lang = "en" /\ outcome = "ok" -> "explanation"
      [] lang = "en" /\ outcome = "failed" -> "explanation(apology)"
      [] lang # "en" /\ outcome = "ok" -> "explanation[translated]"
      [] OTHER -> "explanation(apology)[translated]"

\* Variant: nothing is composed when grading is wanted and no document came.
GradingIntentParts_no_prompt(intent_result, should_grade_pdf, has_file) ==
    IF should_grade_pdf /\ has_file THEN <<"grading_processing">>
    ELSE IF intent_result.intent = "grading" /\ intent_result.confidence <= IntentThreshold
    THEN <<"clarify_grading">>
    ELSE <<>>

\* The intent-based response parts of lines 462-504, without the
\* explanation call itself.
GradingIntentParts(intent_result, should_grade_pdf, has_file) ==
    IF should_grade_pdf /\ has_file THEN <<"grading_processing">>
    ELSE IF should_grade_pdf /\ ~has_file THEN <<"prompt_upload_pdf">>
    ELSE IF intent_result.intent = "grading" /\ intent_result.confidence <= IntentThreshold
    THEN <<"clarify_grading">>
    ELSE <<>>

\* Lines 443-514: intent classification and the parts composed from it.
\* client: the OpenAI client was created at startup; healthy: the explanation
\* agent exists and its service status is "healthy".  Both are fixed at startup
\* and read once by a request.
Step2(client, healthy, intent_out, expl_out, bt) ==
    /\ pc = "step2"
    /\ LET result == loc.result
           intent_result == classify_user_intent(client, intent_out)
           should_grade_pdf == intent_result.intent = "grading"
                               /\ intent_result.confidence > IntentThreshold
           should_explain == intent_result.intent = "explanation"
                             /\ intent_result.confidence > IntentThreshold
           first == IF ~result.is_english THEN <<"translated_banner">>
                    ELSE <<"message_received">>
           grading_parts == GradingIntentParts(intent_result, should_grade_pdf, HasPdf(req))
           explains == should_explain /\ healthy
           translation == translate_response_to_user_language(
                              Reply(<<>>, "en", <<expl_out>>),
                              loc.original_language_code, bt)
           translates == explains /\ loc.original_language_code # ""
           translated == translates /\ translation.success /\ ~translation.skipped
           explanation_lang == IF translated THEN translation.translated_text.lang
                               ELSE "en"
           explain_parts ==
               IF explains THEN <<ExplanationPart(explanation_lang, expl_out)>>
               ELSE IF should_explain THEN <<"explanation_unavailable">>
               ELSE IF intent_result.intent = "explanation"
                       /\ intent_result.confidence <= IntentThreshold
               THEN <<"clarify_explanation">>
               ELSE IF intent_result.intent = "general" THEN <<"thanks_general">>
               ELSE <<>>
           rest == grading_parts \o explain_parts
           ensure == IF ~result.is_english /\ rest = <<>>
                     THEN <<"ack_non_english">> ELSE <<>>
       IN  /\ log' = log \o intent_result.calls
                         \o (IF result.final_approved /\ explains
                             THEN <<"explanation_agent.get_explanation">> ELSE <<>>)
                         \o (IF result.final_approved /\ translates
                             THEN translation.calls ELSE <<>>)
           /\ IF result.final_approved
              THEN loc' = [loc EXCEPT
                       !.result = None,
                       !.should_grade_pdf = should_grade_pdf,
                       !.bot_response_parts = @ \o first \o rest \o ensure,
                       !.explanation_result =
                           IF explains
                           THEN [topic |-> result.translated_text,
                                 explanation |-> ExplanationPart(explanation_lang, expl_out),
                                 intent_confidence |-> intent_result.confidence]
                           ELSE @]
              ELSE loc' = [loc EXCEPT
                       !.result = None,
                       !.should_grade_pdf =
                           should_grade_pdf_when_rejected(should_grade_pdf),
                       !.bot_response_parts = Append(@, "rejection_notice")]
    /\ pc' = "step3"
    /\ UNCHANGED <<cache, now, req, resp, served,
                   last_op>>

\* total_marks=100, api_server.py line 570
TotalMarks == 100

\* Variant: an attached document is graded whatever the intent.
grades_document_always(should_grade_pdf, message) == TRUE

\* Lines 522-526: a document without a message is graded, one with a message
\* when the intent asked for it.
grades_document(should_grade_pdf, message) == IsBlank(message) \/ should_grade_pdf

\* Lines 520-606: the attached document.
Step3(grade) ==
    /\ pc = "step3"
    /\ LET no_message == IsBlank(req.message)
           should_grade_pdf == grades_document(loc.should_grade_pdf, req.message)
           received == IF no_message THEN <<"pdf_received">> ELSE <<>>
           valid == validate_pdf_blob(req.pdf_file)
           rubric == IF ~no_message /\ loc.translation_info # None
                     THEN "custom_rubric" ELSE "default_rubric"
           marks == IF grade.kind = "graded" THEN grade.marks ELSE 0
           percentage == (marks * 100) \div TotalMarks
       IN  IF ~HasPdf(req)
           THEN /\ loc' = loc
                /\ log' = log
           ELSE IF ~should_grade_pdf
           THEN /\ loc' = [loc EXCEPT !.bot_response_parts = Append(@, "pdf_hint")]
                /\ log' = log
           ELSE IF ~valid
           THEN /\ loc' = [loc EXCEPT
                       !.should_grade_pdf = should_grade_pdf,
                       !.bot_response_parts = @ \o received \o <<"invalid_pdf">>]
                /\ log' = Append(log, "validate_pdf_blob")
           ELSE IF grade.kind = "init_raises"
           THEN /\ loc' = [loc EXCEPT
                       !.should_grade_pdf = should_grade_pdf,
                       !.rubric = rubric,
                       !.bot_response_parts = @ \o received \o <<"pdf_error">>]
                /\ log' = log \o <<"validate_pdf_blob", "grade_assignment_from_blob">>
           ELSE /\ loc' = [loc EXCEPT
                       !.should_grade_pdf = should_grade_pdf,
                       !.rubric = rubric,
                       !.grading_result =
                           [marks_obtained |-> marks, total_marks |-> TotalMarks,
                            ai_feedback |-> grade.kind],
                       !.bot_response_parts =
                           @ \o received \o <<grade_level(percentage)>>]
                /\ log' = log \o <<"validate_pdf_blob", "grade_assignment_from_blob">>
                              \o (IF grade.kind = "graded"
                                  THEN <<"grading_llm.invoke">> ELSE <<>>)
    /\ pc' = "respond"
    /\ UNCHANGED <<cache, now, req, resp, served,
                   last_op>>

\* Lines 613-619: the parts joined by blank lines.
Compose(bot_response_parts) ==
    IF bot_response_parts = <<>> THEN Reply(<<>>, "en", <<"processing_completed">>)
    ELSE Reply(<<>>, "en", bot_response_parts)

\* Lines 613-684: compose, translate back to the user's language, cache the
\* response and return it.
Respond(bt, t) ==
    /\ pc = "respond"
    /\ LET composed == Compose(loc.bot_response_parts)
           wanted == loc.translation_info # None
                     /\ loc.translation_info.original_language # "English"
                     /\ loc.original_language_code # ""
           response_translation ==
               translate_response_to_user_language(composed,
                                                   loc.original_language_code, bt)
           final_bot_response ==
               IF wanted /\ response_translation.success
                         /\ ~response_translation.skipped
               THEN response_translation.translated_text
               ELSE composed
           response_data ==
               [success |-> TRUE, bot_response |-> final_bot_response,
                translation_info |-> loc.translation_info,
                explanation_result |-> loc.explanation_result,
                final_approved |-> loc.final_approved]
           caches == CachesResponse(req, loc.final_approved)
       IN  /\ loc' = NoLoc
           /\ cache' = IF caches
                       THEN put(cache, req.message, response_data, FALSE, <<>>, t)
                       ELSE cache
           /\ log' = log \o <<"compose">>
                         \o (IF wanted
                             THEN <<"translate_response">> \o response_translation.calls
                             ELSE <<>>)
                         \o (IF caches THEN <<"cache.put">> ELSE <<>>)
                         \o <<"return:response">>
           /\ resp' = ChatResponse(TRUE, MessageOr(req.message, PdfUploaded),
                                   final_bot_response, loc.translation_info,
                                   loc.moderation_info, loc.grading_result,
                                   loc.explanation_result, loc.final_approved, "", t)
    /\ pc' = "done"
    /\ now' = t
    /\ UNCHANGED <<req, served, last_op>>

\* Variant: the handler lets the exception out instead of answering.
last_resort_reraised(request, t) == None

\* Lines 727-735: the last-resort error response.
last_resort_response(request, t) ==
    ChatResponse(FALSE, fallback_message(request),
                 Reply(<<>>, "en", <<"technical_difficulties">>),
                 None, None, None, None, FALSE, "exception", t)

\* Lines 686-735: an exception reached the endpoint's handler.
\* handler_raises: the fallback itself raises after the exact lookup.
Raise(handler_raises, t) ==
    /\ InRequest
    /\ LET tries == TriesFallback(req)
           looked == get(cache, fallback_message(req), FALSE, t)
           fallback_response ==
               get_fallback_response(looked.cache, fallback_message(req),
                                     "service_error")
           last_resort == last_resort_response(req, t)
       IN  IF ~tries
           THEN /\ cache' = cache
                /\ resp' = last_resort
                /\ log' = log \o <<"exception", "return:last_resort">>
           ELSE /\ cache' = looked.cache
                /\ IF handler_raises
                   THEN /\ resp' = last_resort
                        /\ log' = log \o <<"exception", "cache.get", "exception",
                                           "return:last_resort">>
                   ELSE IF looked.result # None
                   THEN /\ resp' = ChatResponse(TRUE, fallback_message(req),
                                      Annotate("[Cached Fallback]",
                                               looked.result.bot_response),
                                      looked.result.translation_info, None, None,
                                      looked.result.explanation_result,
                                      looked.result.final_approved, "", t)
                        /\ log' = log \o <<"exception", "cache.get",
                                           "return:cached_fallback">>
                   ELSE /\ resp' = ChatResponse(TRUE, fallback_message(req),
                                      fallback_response.bot_response,
                                      None, None, None, None, TRUE, "", t)
                        /\ log' = log \o <<"exception", "cache.get",
                                           "cache.get_fallback_response",
                                           "return:structured_fallback">>
    /\ pc' = "done"
    /\ now' = t
    /\ loc' = NoLoc
    /\ UNCHANGED <<req, served, last_op>>

\* POST /api/cache/clear, between two requests.
ClearCache ==
    /\ pc \in {"idle", "done"}
    /\ cache # <<>>
    /\ cache' = clear(cache)
    /\ UNCHANGED <<now, pc, req, loc, log, resp,
                   served, last_op>>

Next ==
    \/ \E message \in Messages, pdf_file \in PdfFiles, t \in Clock :
          Receive(message, pdf_file, t)
    \/ \E agents_ok \in BOOLEAN, det \in DetectOutcomes, tr \in TranslateOutcomes,
          llm \in ModerateOutcomes : Step1(agents_ok, det, tr, llm)
    \/ \E client \in BOOLEAN, healthy \in BOOLEAN, intent_out \in IntentOutcomes,
          expl_out \in ExplainOutcomes, bt \in BackTranslateOutcomes :
          Step2(client, healthy, intent_out, expl_out, bt)
    \/ \E grade \in GradeOutcomes : Step3(grade)
    \/ \E bt \in BackTranslateOutcomes, t \in Clock : Respond(bt, t)
    \/ \E handler_raises \in BOOLEAN, t \in Clock : Raise(handler_raises, t)
    \/ ClearCache

Spec == Init /\ [][Next]_vars

\* One more stage of the request in flight.  The handler is straight-line
\* code between its collaborator calls, and a call that returned or threw
\* hands control back to it: a request in flight is not left where it is.
Advance ==
    \/ \E agents_ok \in BOOLEAN, det \in DetectOutcomes, tr \in TranslateOutcomes,
          llm \in ModerateOutcomes : Step1(agents_ok, det, tr, llm)
    \/ \E client \in BOOLEAN, healthy \in BOOLEAN, intent_out \in IntentOutcomes,
          expl_out \in ExplainOutcomes, bt \in BackTranslateOutcomes :
          Step2(client, healthy, intent_out, expl_out, bt)
    \/ \E grade \in GradeOutcomes : Step3(grade)
    \/ \E bt \in BackTranslateOutcomes, t \in Clock : Respond(bt, t)
    \/ \E handler_raises \in BOOLEAN, t \in Clock : Raise(handler_raises, t)

LiveSpec == Init /\ [][Next]_vars /\ WF_vars(Advance)

(***************************************************************************)
(* The cache driven through its own interface: put, get and clear called   *)
(* with any message, payload and TTL override, at any clock reading.       *)
(***************************************************************************)
CacheMessages == {<<"H", "i">>, <<"h", "i", "\n">>, <<"y", "o">>, <<" ">>}

\* The endpoint stores message-only responses: has_pdf=False at every put.
PutPdfFlags == {FALSE}

\* response_data: what the endpoint passes (with a field put does not
\* keep), and a dict with only the reply text.
Payloads ==
    {[success |-> FALSE, bot_response |-> Reply(<<>>, "en", <<"rejection_notice">>),
      translation_info |-> None, explanation_result |-> None,
      final_approved |-> FALSE, moderation_info |-> None],
     [bot_response |-> Reply(<<>>, "ur", <<"thanks_general">>)]}

\* ttl: None, and the overrides 0 and 2.
TtlOverrides == {<<>>, <<0>>, <<2>>}

CachePut(user_message, response_data, has_pdf, ttl, t) ==
    /\ cache' = put(cache, user_message, response_data, has_pdf, ttl, t)
    /\ now' = t
    /\ last_op' = [op |-> "put", message |-> user_message, has_pdf |-> has_pdf,
                   payload |-> response_data, ttl |-> ttl,
                   removed |-> SelectSeq(cache, LAMBDA e : e.key \notin KeysOf(cache'))]
    /\ UNCHANGED <<pc, req, loc, log, resp, served>>

CacheGet(user_message, has_pdf, t) ==
    /\ LET looked == get(cache, user_message, has_pdf, t)
       IN  /\ cache' = looked.cache
           /\ last_op' = [op |-> "get", message |-> user_message,
                          has_pdf |-> has_pdf, result |-> looked.result]
    /\ now' = t
    /\ UNCHANGED <<pc, req, loc, log, resp, served>>

CacheClear ==
    /\ cache # <<>>
    /\ cache' = clear(cache)
    /\ last_op' = [op |-> "clear"]
    /\ UNCHANGED <<now, pc, req, loc, log, resp, served>>

CacheNext ==
    \/ \E user_message \in CacheMessages, response_data \in Payloads,
          has_pdf \in PutPdfFlags, ttl \in TtlOverrides, t \in Clock :
          CachePut(user_message, response_data, has_pdf, ttl, t)
    \/ \E user_message \in CacheMessages, has_pdf \in BOOLEAN, t \in Clock :
          CacheGet(user_message, has_pdf, t)
    \/ CacheClear

CacheSpec == Init /\ [][CacheNext]_vars

(***************************************************************************)
(* The similarity search and the fallback generator of the cache, called   *)
(* on a cache filled through put.                                          *)
(***************************************************************************)
\* A word as long as the stored prefix of a message, followed by "yo".
LongMessage == [i \in 1..TruncLen |-> "x"] \o <<" ", "y", "o">>

\* "a", "a b c", "A b c d", "yo" and the long message.
SimilarMessages ==
    {<<"a">>, <<"a", " ", "b", " ", "c">>, <<"A", " ", "b", " ", "c", " ", "d">>,
     <<"y", "o">>, LongMessage}

ErrorContexts == {"network", "service_error"}

\* Variant: the search passes over the entries whose time to live is over.
FindSimilar_unexpired(user_message) ==
    /\ last_op' = [op |-> "find_similar", message |-> user_message,
                   result |-> _find_similar_cached_response(
                                  _cleanup_expired(cache, now), user_message)]
    /\ UNCHANGED <<cache, now, pc, req, loc, log, resp, served>>

FindSimilar(user_message) ==
    /\ last_op' = [op |-> "find_similar", message |-> user_message,
                   result |-> _find_similar_cached_response(cache, user_message)]
    /\ UNCHANGED <<cache, now, pc, req, loc, log, resp, served>>

Fallback(user_message, error_context) ==
    /\ last_op' = [op |-> "get_fallback_response", message |-> user_message,
                   result |-> get_fallback_response(cache, user_message, error_context)]
    /\ cache' = store_after_fallback(cache, user_message)
    /\ UNCHANGED <<now, pc, req, loc, log, resp, served>>

\* Neither the search nor the generator reads the clock or an entry's age:
\* the puts of these runs all happen at one clock reading.
FallbackNext ==
    \/ \E user_message \in SimilarMessages, response_data \in Payloads :
          CachePut(user_message, response_data, FALSE, <<>>, now)
    \/ \E user_message \in SimilarMessages : FindSimilar(user_message)
    \/ \E user_message \in SimilarMessages, error_context \in ErrorContexts :
          Fallback(user_message, error_context)

FallbackSpec == Init /\ [][FallbackNext]_vars

(***************************************************************************)
(* The cache under two threads: one runs put, the other get or the         *)
(* similarity search, interleaved statement by statement.  In this         *)
(* specification pc and loc hold the position and the locals of each       *)
(* thread.  (The server runs its handlers on one event loop, which is the  *)
(* interleaving where an operation never overlaps another.)                *)
(***************************************************************************)
ConcMessages == {<<"H", "i">>, <<"y", "o">>}

ConcPayloads == {[bot_response |-> Reply(<<>>, "en", <<"thanks_general">>)]}

ConcInit ==
    /\ cache = <<>>
    /\ now = 0
    /\ pc = [writer |-> "idle", reader |-> "idle"]
    /\ loc = [writer |-> NoLoc, reader |-> NoLoc]
    /\ req = NoReq
    /\ log = <<>>
    /\ resp = None
    /\ served = 0
    /\ last_op = NoOp

\* Variant: the entry is stored empty of its metadata, which is added by a
\* second store.
entry_stores_in_two(e) == <<[key |-> e.key, value |-> e.value], e>>

\* Lines 92-97: the dict display is evaluated to a complete dict, which one
\* subscript store binds to the key.  The stores made, in order.
entry_stores(e) == <<e>>

\* Lines 80-90: key, cache_ttl and cached_response.
PutBegin(user_message, response_data, ttl) ==
    /\ pc.writer = "idle"
    /\ loc' = [loc EXCEPT !.writer =
                  [key |-> _generate_key(user_message, FALSE),
                   cache_ttl |-> cache_ttl(ttl),
                   cached_response |-> cached_response(response_data),
                   user_message |-> user_message,
                   pending |-> <<>>]]
    /\ pc' = [pc EXCEPT !.writer = "build"]
    /\ UNCHANGED <<cache, now, req, log, resp, served, last_op>>

\* Lines 92-97, right-hand side: the entry is built, with the clock read.
PutBuild(t) ==
    /\ pc.writer = "build"
    /\ loc' = [loc EXCEPT !.writer.pending =
                  entry_stores([key |-> loc.writer.key,
                                value |-> loc.writer.cached_response,
                                timestamp |-> t,
                                ttl |-> loc.writer.cache_ttl,
                                original_message |->
                                    Truncate(loc.writer.user_message, TruncLen)])]
    /\ pc' = [pc EXCEPT !.writer = "store"]
    /\ now' = t
    /\ UNCHANGED <<cache, req, log, resp, served, last_op>>

\* Lines 92-97, the store into self.cache[key].
PutStore ==
    /\ pc.writer = "store"
    /\ cache' = StoreEntry(cache, Head(loc.writer.pending))
    /\ loc' = [loc EXCEPT !.writer.pending = Tail(@)]
    /\ pc' = [pc EXCEPT !.writer =
                 IF Len(loc.writer.pending) = 1 THEN "cleanup" ELSE "store"]
    /\ UNCHANGED <<now, req, log, resp, served, last_op>>

\* Line 100
PutCleanup(t) ==
    /\ pc.writer = "cleanup"
    /\ cache' = _cleanup_expired(cache, t)
    /\ pc' = [pc EXCEPT !.writer = "enforce"]
    /\ now' = t
    /\ UNCHANGED <<loc, req, log, resp, served, last_op>>

\* Line 101
PutEnforce ==
    /\ pc.writer = "enforce"
    /\ cache' = _enforce_size_limit(cache)
    /\ pc' = [pc EXCEPT !.writer = "idle"]
    /\ loc' = [loc EXCEPT !.writer = NoLoc]
    /\ UNCHANGED <<now, req, log, resp, served, last_op>>

\* Lines 120-123
GetBegin(user_message) ==
    /\ pc.reader = "idle"
    /\ LET key == _generate_key(user_message, FALSE)
       IN  IF key \notin KeysOf(cache)
           THEN /\ last_op' = [op |-> "get", result |-> None]
                /\ UNCHANGED <<pc, loc>>
           ELSE /\ loc' = [loc EXCEPT !.reader = [key |-> key]]
                /\ pc' = [pc EXCEPT !.reader = "get:read"]
                /\ UNCHANGED last_op
    /\ UNCHANGED <<cache, now, req, log, resp, served>>

\* Line 125: entry = self.cache[key]; a KeyError ends in the except clause.
GetRead ==
    /\ pc.reader = "get:read"
    /\ IF loc.reader.key \in KeysOf(cache)
       THEN /\ loc' = [loc EXCEPT !.reader =
                          [key |-> loc.reader.key,
                           entry |-> cache[IndexOf(cache, loc.reader.key)]]]
            /\ pc' = [pc EXCEPT !.reader = "get:check"]
            /\ UNCHANGED last_op
       ELSE /\ loc' = [loc EXCEPT !.reader = NoLoc]
            /\ pc' = [pc EXCEPT !.reader = "idle"]
            /\ last_op' = [op |-> "get", result |-> None]
    /\ UNCHANGED <<cache, now, req, log, resp, served>>

\* Lines 126-135
GetCheck(t) ==
    /\ pc.reader = "get:check"
    /\ IF Expired(loc.reader.entry, t)
       THEN /\ cache' = SelectSeq(cache, LAMBDA e : e.key # loc.reader.key)
            /\ last_op' = [op |-> "get", result |-> None]
       ELSE /\ cache' = cache
            /\ last_op' = [op |-> "get", result |-> loc.reader.entry.value]
    /\ loc' = [loc EXCEPT !.reader = NoLoc]
    /\ pc' = [pc EXCEPT !.reader = "idle"]
    /\ now' = t
    /\ UNCHANGED <<req, log, resp, served>>

\* Lines 220-226: the loop over self.cache.values() starts.
FindBegin(user_message) ==
    /\ pc.reader = "idle"
    /\ loc' = [loc EXCEPT !.reader =
                  [input_words |-> Words(_normalize_key(user_message)),
                   size |-> Len(cache), index |-> 0,
                   best |-> [match |-> None, inter |-> 0, union |-> 1]]]
    /\ pc' = [pc EXCEPT !.reader = "find:next"]
    /\ UNCHANGED <<cache, now, req, log, resp, served, last_op>>

\* Lines 226-248: one turn of the loop.  The iterator raises RuntimeError
\* when the dict changed size; the except clause returns None.
FindNext ==
    /\ pc.reader = "find:next"
    /\ IF Len(cache) # loc.reader.size
       THEN /\ last_op' = [op |-> "find_similar", result |-> None]
            /\ loc' = [loc EXCEPT !.reader = NoLoc]
            /\ pc' = [pc EXCEPT !.reader = "idle"]
       ELSE IF loc.reader.index = Len(cache)
       THEN /\ last_op' = [op |-> "find_similar", result |-> loc.reader.best.match]
            /\ loc' = [loc EXCEPT !.reader = NoLoc]
            /\ pc' = [pc EXCEPT !.reader = "idle"]
       ELSE LET entry == cache[loc.reader.index + 1]
            IN  /\ loc' = [loc EXCEPT !.reader =
                              [input_words |-> loc.reader.input_words,
                               size |-> loc.reader.size,
                               index |-> loc.reader.index + 1,
                               best |-> BestMatch(<<entry>>, loc.reader.input_words,
                                                  loc.reader.best),
                               entry |-> entry]]
                /\ UNCHANGED <<pc, last_op>>
    /\ UNCHANGED <<cache, now, req, log, resp, served>>

ConcNext ==
    \/ \E user_message \in ConcMessages, response_data \in ConcPayloads :
          PutBegin(user_message, response_data, <<>>)
    \/ \E t \in Clock : PutBuild(t)
    \/ PutStore
    \/ \E t \in Clock : PutCleanup(t)
    \/ PutEnforce
    \/ \E user_message \in ConcMessages : GetBegin(user_message)
    \/ GetRead
    \/ \E t \in Clock : GetCheck(t)
    \/ \E user_message \in ConcMessages : FindBegin(user_message)
    \/ FindNext

ConcSpec == ConcInit /\ [][ConcNext]_vars

(***************************************************************************)
(* explanation_agent: the EducationalAIAgent the server constructs once at *)
(* startup (api_server.py:245) and every request calls.  In ExplainSpec    *)
(* loc holds the fields of that object and last_op the last call of        *)
(* get_explanation: what was sent to the chat-completions client and what  *)
(* the caller got back.                                                    *)
(***************************************************************************)
HistoryLimit == 20

Topics == {<<"a">>, <<"b">>}

\* What client.chat.completions.create does: it raises, or it answers with
\* the content of the first choice.
Completions == {[raises |-> TRUE, content |-> <<>>],
                [raises |-> FALSE, content |-> <<" ", "e", " ">>]}

system_message == [role |-> "system", content |-> <<"system_prompt">>]

explanation_apology == <<"Sorry, I encountered an error">>

\* Lines 64-71: the messages of the API call.
explanation_messages(conversation_history, user_input, include_history) ==
    <<system_message>>
    \o (IF include_history /\ conversation_history # <<>>
        THEN conversation_history ELSE <<>>)
    \o <<[role |-> "user", content |-> user_input]>>

\* Lines 92-93: the last HistoryLimit entries are kept.
trim_history(h) ==
    IF Len(h) > HistoryLimit THEN SubSeq(h, Len(h) - HistoryLimit + 1, Len(h))
    ELSE h

ExplainInit ==
    /\ cache = <<>>
    /\ now = 0
    /\ pc = "idle"
    /\ req = NoReq
    /\ loc = [conversation_history |-> <<>>]
    /\ log = <<>>
    /\ resp = None
    /\ served = 0
    /\ last_op = NoOp

\* EducationalAIAgent.get_explanation, lines 51-98: what it returns.
get_explanation(completion) ==
    IF completion.raises THEN explanation_apology ELSE Strip(completion.content)

\* Lines 88-93: the history after the call; a call that raised left it alone.
history_after(conversation_history, user_input, completion) ==
    IF completion.raises THEN conversation_history
    ELSE trim_history(conversation_history
                      \o <<[role |-> "user", content |-> user_input],
                           [role |-> "assistant", content |-> Strip(completion.content)]>>)

\* chat_endpoint, line 474: the translated text of a request classified
\* as an explanation request is explained, include_history left at True.
ChatExplain(translated_text, completion) ==
    /\ last_op' = [op |-> "get_explanation", caller |-> "chat_endpoint",
                   user_input |-> translated_text,
                   messages |-> explanation_messages(loc.conversation_history, translated_text, TRUE),
                   result |-> get_explanation(completion)]
    /\ loc' = [loc EXCEPT !.conversation_history =
                  history_after(@, translated_text, completion)]
    /\ UNCHANGED <<cache, now, pc, req, log, resp, served>>

\* explain_endpoint, line 757.
ExplainTopic(topic, include_history, completion) ==
    /\ ~IsBlank(topic)
    /\ last_op' = [op |-> "get_explanation", caller |-> "explain_endpoint",
                   user_input |-> topic,
                   messages |-> explanation_messages(loc.conversation_history, topic, include_history),
                   result |-> get_explanation(completion)]
    /\ loc' = [loc EXCEPT !.conversation_history =
                  history_after(@, topic, completion)]
    /\ UNCHANGED <<cache, now, pc, req, log, resp, served>>

ExplainNext ==
    \/ \E translated_text \in Topics, completion \in Completions :
          ChatExplain(translated_text, completion)
    \/ \E topic \in Topics, include_history \in BOOLEAN, completion \in Completions :
          ExplainTopic(topic, include_history, completion)

ExplainSpec == ExplainInit /\ [][ExplainNext]_vars

(***************************************************************************)
(* quiz_agent.generator.filter_to_20_questions.  In QuizSpec loc holds the *)
(* list handed to the function and last_op the call and its result.        *)
(***************************************************************************)
MaxQuestions == 22

\* `return valid_mcqs[:20]`
QuizLimit == 20

\* The shapes of a question: "valid", and one way each of breaking a rule of
\* the filter.  The question of shape "blank_question" has the text " ".
MCQShapes ==
    {"valid", "empty_question", "blank_question", "no_options", "two_options",
     "five_options", "empty_option", "blank_option", "index_4", "index_negative"}

\* MCQ(question=..., options=[...], answer_index=...): the i-th question of
\* a list, of the given shape.
MCQ(i, shape) ==
    [id |-> i,
     question |-> CASE shape = "empty_question" -> <<>>
                    [] shape = "blank_question" -> <<" ">>
                    [] OTHER -> <<"Q">>,
     options |-> CASE shape = "no_options" -> <<>>
                   [] shape = "two_options" -> << <<"A">>, <<"B">> >>
                   [] shape = "five_options" ->
                          << <<"A">>, <<"B">>, <<"C">>, <<"D">>, <<"E">> >>
                   [] shape = "empty_option" -> << <<"A">>, <<>>, <<"C">>, <<"D">> >>
                   [] shape = "blank_option" -> << <<"A">>, <<"B">>, <<"C">>, <<" ">> >>
                   [] OTHER -> << <<"A">>, <<"B">>, <<"C">>, <<"D">> >>,
     answer_index |-> CASE shape = "index_4" -> 4
                        [] shape = "index_negative" -> -1
                        [] OTHER -> i % 4]

\* Variant: the options are not looked into.
valid_mcq_any_options(mcq) ==
    /\ mcq.question # <<>>
    /\ mcq.options # <<>>
    /\ Len(mcq.options) = 4
    /\ 0 <= mcq.answer_index /\ mcq.answer_index < 4

\* Lines 60-64: the test a question passes to be kept.
valid_mcq(mcq) ==
    /\ mcq.question # <<>>
    /\ mcq.options # <<>>
    /\ Len(mcq.options) = 4
    /\ 0 <= mcq.answer_index /\ mcq.answer_index < 4
    /\ \A k \in 1..Len(mcq.options) : Strip(mcq.options[k]) # <<>>

filter_to_20_questions(mcqs) ==
    IF mcqs = <<>> THEN <<>>
    ELSE LET valid_mcqs == SelectSeq(mcqs, valid_mcq)
         IN  IF Len(valid_mcqs) >= QuizLimit THEN SubSeq(valid_mcqs, 1, QuizLimit)
             ELSE IF valid_mcqs # <<>> THEN valid_mcqs
             ELSE <<>>

\* The lists of the model: up to MaxQuestions questions, all of them valid
\* but at most two, which have one of the other shapes.
QuizInit ==
    /\ cache = <<>>
    /\ now = 0
    /\ pc = "idle"
    /\ req = NoReq
    /\ \E n \in 0..MaxQuestions, shape \in MCQShapes :
          \E a \in 0..n, b \in 0..n :
              /\ a <= b
              /\ shape = "valid" <=> b = 0
              /\ loc = [mcqs |-> [i \in 1..n |->
                                     MCQ(i, IF i \in {a, b} THEN shape ELSE "valid")]]
    /\ log = <<>>
    /\ resp = None
    /\ served = 0
    /\ last_op = NoOp

FilterQuestions ==
    /\ last_op.op = "none"
    /\ last_op' = [op |-> "filter_to_20_questions", mcqs |-> loc.mcqs,
                   result |-> filter_to_20_questions(loc.mcqs)]
    /\ UNCHANGED <<cache, now, pc, req, loc, log, resp, served>>

QuizNext == FilterQuestions

QuizSpec == QuizInit /\ [][QuizNext]_vars

(***************************************************************************)
(* BackendCache.put called by several threads at once, interleaved         *)
(* statement by statement.  In this specification pc and loc hold the      *)
(* position and the locals of each thread; every thread runs put once on   *)
(* a store that earlier puts filled.  An exception raised by a statement   *)
(* ends the put in its except clause (lines 105-106), which records it.    *)
(***************************************************************************)
Threads == {1, 2}

\* max_entries + 2 texts with pairwise different keys.
PutMessages == {[j \in 1..i |-> "a"] : i \in 1..(max_entries + 2)}

ThreadLocals ==
    [current_time |-> 0, size |-> 0, index |-> 0, expired_keys |-> <<>>,
     sorted_items |-> <<>>, entries_to_remove |-> 0, i |-> 0, error |-> ""]

\* The store after n puts made one after the other at time 0.
RECURSIVE Prefill(_)
Prefill(n) ==
    IF n = 0 THEN <<>>
    ELSE put(Prefill(n - 1), [j \in 1..n |-> "a"], CHOOSE p \in ConcPayloads : TRUE,
             FALSE, <<>>, 0)

PutsInit ==
    /\ \E n \in 0..max_entries : cache = Prefill(n)
    /\ now = 0
    /\ pc = [self \in Threads |-> "idle"]
    /\ loc = [self \in Threads |-> ThreadLocals]
    /\ req = NoReq
    /\ log = <<>>
    /\ resp = None
    /\ served = 0
    /\ last_op = NoOp

\* The put of thread self ends: normally (error = "") or in its except clause.
Finished(self, error) ==
    /\ pc' = [pc EXCEPT ![self] = "done"]
    /\ loc' = [loc EXCEPT ![self] = [ThreadLocals EXCEPT !.error = error]]

\* del self.cache[key] by thread self.  A dict keeps the slot of a deleted
\* entry, so the position of another thread's iterator counts one live
\* entry less when the deleted entry lies before it.
DeleteKey(self, key, locals) ==
    /\ cache' = SelectSeq(cache, LAMBDA e : e.key # key)
    /\ loc' = [q \in Threads |->
                  IF q = self THEN locals
                  ELSE IF pc[q] = "sweep" /\ loc[q].index >= IndexOf(cache, key)
                  THEN [loc[q] EXCEPT !.index = @ - 1]
                  ELSE loc[q]]

\* Lines 80-97: key, cache_ttl and cached_response are private to the
\* thread; the entry is built with the clock read and stored under the key.
ThreadStore(self, user_message, response_data, t) ==
    /\ pc[self] = "idle"
    /\ cache' = StoreEntry(cache,
                   [key |-> _generate_key(user_message, FALSE),
                    value |-> cached_response(response_data),
                    timestamp |-> t,
                    ttl |-> cache_ttl(<<>>),
                    original_message |-> Truncate(user_message, TruncLen)])
    /\ pc' = [pc EXCEPT ![self] = "cleanup"]
    /\ now' = t
    /\ UNCHANGED <<loc, req, log, resp, served, last_op>>

\* Lines 42-45: the clock is read and the iterator over self.cache.items()
\* is created; it remembers the size of the dict.
SweepBegin(self, t) ==
    /\ pc[self] = "cleanup"
    /\ loc' = [loc EXCEPT ![self] =
                  [ThreadLocals EXCEPT !.current_time = t, !.size = Len(cache)]]
    /\ pc' = [pc EXCEPT ![self] = "sweep"]
    /\ now' = t
    /\ UNCHANGED <<cache, req, log, resp, served, last_op>>

\* Lines 45-47: one turn of the loop.  The iterator raises RuntimeError
\* when the dict changed size since the iterator was created.
SweepNext(self) ==
    /\ pc[self] = "sweep"
    /\ IF Len(cache) # loc[self].size
       THEN Finished(self, "RuntimeError")
       ELSE IF loc[self].index = Len(cache)
       THEN /\ pc' = [pc EXCEPT ![self] =
                         IF loc[self].expired_keys = <<>> THEN "enforce"
                         ELSE "sweep:del"]
            /\ UNCHANGED loc
       ELSE LET entry == cache[loc[self].index + 1]
            IN  /\ loc' = [loc EXCEPT
                              ![self].index = @ + 1,
                              ![self].expired_keys =
                                  IF Expired(entry, loc[self].current_time)
                                  THEN Append(@, entry.key) ELSE @]
                /\ UNCHANGED pc
    /\ UNCHANGED <<cache, now, req, log, resp, served, last_op>>

\* Lines 49-50: one del of the second loop; KeyError when the key is gone.
SweepDelete(self) ==
    /\ pc[self] = "sweep:del"
    /\ LET key == Head(loc[self].expired_keys)
           rest == Tail(loc[self].expired_keys)
       IN  IF key \notin KeysOf(cache)
           THEN Finished(self, "KeyError") /\ UNCHANGED cache
           ELSE /\ DeleteKey(self, key, [loc[self] EXCEPT !.expired_keys = rest])
                /\ pc' = [pc EXCEPT ![self] =
                             IF rest = <<>> THEN "enforce" ELSE "sweep:del"]
    /\ UNCHANGED <<now, req, log, resp, served, last_op>>

\* Lines 56-57
EnforceCheck(self) ==
    /\ pc[self] = "enforce"
    /\ IF Len(cache) <= max_entries
       THEN Finished(self, "")
       ELSE pc' = [pc EXCEPT ![self] = "enforce:sort"] /\ UNCHANGED loc
    /\ UNCHANGED <<cache, now, req, log, resp, served, last_op>>

\* Line 60: sorted() copies the items in one call.
EnforceSort(self) ==
    /\ pc[self] = "enforce:sort"
    /\ loc' = [loc EXCEPT ![self].sorted_items = SortedByTimestamp(cache)]
    /\ pc' = [pc EXCEPT ![self] = "enforce:count"]
    /\ UNCHANGED <<cache, now, req, log, resp, served, last_op>>

\* Line 61
EnforceCount(self) ==
    /\ pc[self] = "enforce:count"
    /\ LET entries_to_remove == Len(cache) - max_entries
       IN  IF entries_to_remove <= 0
           THEN Finished(self, "")
           ELSE /\ loc' = [loc EXCEPT
                              ![self].entries_to_remove = entries_to_remove]
                /\ pc' = [pc EXCEPT ![self] = "enforce:del"]
    /\ UNCHANGED <<cache, now, req, log, resp, served, last_op>>

\* Lines 63-65: one turn of the loop over range(entries_to_remove).
EnforceDelete(self) ==
    /\ pc[self] = "enforce:del"
    /\ LET i == loc[self].i + 1
       IN  IF i > Len(loc[self].sorted_items)
           THEN Finished(self, "IndexError") /\ UNCHANGED cache
           ELSE IF loc[self].sorted_items[i].key \notin KeysOf(cache)
           THEN Finished(self, "KeyError") /\ UNCHANGED cache
           ELSE IF i = loc[self].entries_to_remove
           THEN /\ DeleteKey(self, loc[self].sorted_items[i].key, ThreadLocals)
                /\ pc' = [pc EXCEPT ![self] = "done"]
           ELSE /\ DeleteKey(self, loc[self].sorted_items[i].key,
                             [loc[self] EXCEPT !.i = i])
                /\ UNCHANGED pc
    /\ UNCHANGED <<now, req, log, resp, served, last_op>>

PutsNext ==
    \/ \E self \in Threads, user_message \in PutMessages,
          response_data \in ConcPayloads, t \in Clock :
          ThreadStore(self, user_message, response_data, t)
    \/ \E self \in Threads, t \in Clock : SweepBegin(self, t)
    \/ \E self \in Threads : SweepNext(self)
    \/ \E self \in Threads : SweepDelete(self)
    \/ \E self \in Threads : EnforceCheck(self)
    \/ \E self \in Threads : EnforceSort(self)
    \/ \E self \in Threads : EnforceCount(self)
    \/ \E self \in Threads : EnforceDelete(self)

PutsSpec == PutsInit /\ [][PutsNext]_vars

(***************************************************************************)
(* classify_user_intent on its own: the client may be missing (no API key  *)
(* at startup), and the completion either throws (API error, no JSON, a    *)
(* missing field, a confidence that is no number) or is a JSON object with *)
(* an intent and a confidence that the code does not constrain.            *)
(***************************************************************************)
ClassifierAnswers ==
    {[kind |-> "throws"]}
    \cup {[kind |-> "json", intent |-> i, confidence |-> cf] :
             i \in {"grading", "explanation", "general", "other"},
             cf \in {-50, 0, 25, 50, 75, 100, 150}}

ClassifyInit ==
    /\ cache = <<>>
    /\ now = 0
    /\ pc = "idle"
    /\ req = NoReq
    /\ \E client \in BOOLEAN, answer \in ClassifierAnswers :
          loc = [client |-> client, answer |-> answer]
    /\ log = <<>>
    /\ resp = None
    /\ served = 0
    /\ last_op = NoOp

Classify ==
    /\ last_op.op = "none"
    /\ \E intent_result \in {classify_user_intent(loc.client, loc.answer)} :
          /\ last_op' = [op |-> "classify_user_intent",
                         intent |-> intent_result.intent,
                         confidence |-> intent_result.confidence]
          /\ log' = intent_result.calls
    /\ UNCHANGED <<cache, now, pc, req, loc, resp, served>>

ClassifyNext == Classify

ClassifySpec == ClassifyInit /\ [][ClassifyNext]_vars

(***************************************************************************)
(* chat_endpoint up to its document section: one request after the other   *)
(* is received, translated and moderated, routed by its intent and taken   *)
(* through the document section, on the empty cache of a fresh server.     *)
(***************************************************************************)
RouteNext ==
    \/ \E message \in Messages, pdf_file \in PdfFiles, t \in Clock :
          Receive(message, pdf_file, t)
    \/ \E agents_ok \in BOOLEAN, det \in DetectOutcomes, tr \in TranslateOutcomes,
          llm \in ModerateOutcomes : Step1(agents_ok, det, tr, llm)
    \/ \E client \in BOOLEAN, healthy \in BOOLEAN, intent_out \in IntentOutcomes,
          expl_out \in ExplainOutcomes, bt \in BackTranslateOutcomes :
          Step2(client, healthy, intent_out, expl_out, bt)
    \/ \E grade \in GradeOutcomes : Step3(grade)

RouteSpec == Init /\ [][RouteNext]_vars

(***************************************************************************)
(* The translation + moderation pipeline on its own: process_with_moderation *)
(* and moderate_content are called directly, on every input text and every  *)
(* answer of their collaborators.                                            *)
(***************************************************************************)
PipelineInit ==
    /\ cache = <<>>
    /\ now = 0
    /\ pc = "idle"
    /\ req = NoReq
    /\ \E input_text \in Messages, agents_ok \in BOOLEAN, det \in DetectOutcomes,
          tr \in TranslateOutcomes, llm \in ModerateAnswers :
          loc = [input_text |-> input_text, agents_ok |-> agents_ok, det |-> det,
                 tr |-> tr, llm |-> llm]
    /\ log = <<>>
    /\ resp = None
    /\ served = 0
    /\ last_op = NoOp

ProcessWithModeration ==
    /\ last_op.op = "none"
    /\ \E result \in {process_with_moderation(loc.input_text, loc.agents_ok, loc.det,
                                               loc.tr, loc.llm)} :
          /\ last_op' = [op |-> "process_with_moderation", result |-> result]
          /\ log' = result.calls
    /\ UNCHANGED <<cache, now, pc, req, loc, resp, served>>

ModerateContent ==
    /\ last_op.op = "none"
    /\ \E result \in {moderate_content(loc.input_text, loc.llm)} :
          /\ last_op' = [op |-> "moderate_content", result |-> result]
          /\ log' = result.calls
    /\ UNCHANGED <<cache, now, pc, req, loc, resp, served>>

PipelineNext == ProcessWithModeration \/ ModerateContent

PipelineSpec == PipelineInit /\ [][PipelineNext]_vars

(***************************************************************************)
(* translate_response_to_user_language on text.  "#" stands for a          *)
(* character of the removed emoji and symbol classes; the texts hold no    *)
(* newline, so the paragraph rule of line 495 leaves them as they are.     *)
(***************************************************************************)
MaxLetters == 12

\* len(clean_text.strip()) < 10, Language_Bridge_Agent.py line 550
MinCleanLen == 10

\* The elements of s at the positions in keep, in order.
KeepAt(s, keep) ==
    [k \in 1..Cardinality(keep) |->
        s[CHOOSE i \in keep : Cardinality({j \in keep : j <= i}) = k]]

\* The positions where "**" starts, from position from on.
BoldMarks(s, from) == {i \in from..(Len(s) - 1) : s[i] = "*" /\ s[i + 1] = "*"}

\* re.sub(r'\*\*(.*?)\*\*', r'\1', text): leftmost pairs of markers, shortest
\* match first.
RECURSIVE Unbold(_)
Unbold(s) ==
    IF BoldMarks(s, 1) = {} THEN s
    ELSE LET i == CHOOSE m \in BoldMarks(s, 1) : \A n \in BoldMarks(s, 1) : m <= n
         IN  IF BoldMarks(s, i + 2) = {} THEN s
             ELSE LET j == CHOOSE m \in BoldMarks(s, i + 2) :
                               \A n \in BoldMarks(s, i + 2) : m <= n
                  IN  SubSeq(s, 1, i - 1) \o SubSeq(s, i + 2, j - 1)
                          \o Unbold(SubSeq(s, j + 2, Len(s)))

\* re.sub(r' +', ' ', text)
CollapseSpaces(s) ==
    KeepAt(s, {i \in 1..Len(s) : ~(s[i] = " " /\ i > 1 /\ s[i - 1] = " ")})

clean_formatting_for_translation(text) ==
    Strip(CollapseSpaces(SelectSeq(Unbold(text), LAMBDA ch : ch # "#")))

\* Variant: a cleaned text of exactly the minimum length is given up too.
text_to_translate_inclusive(response_text) ==
    LET clean_text == clean_formatting_for_translation(response_text)
    IN  IF Len(Strip(clean_text)) <= MinCleanLen THEN response_text ELSE clean_text

\* Lines 543-554
text_to_translate(response_text) ==
    LET clean_text == clean_formatting_for_translation(response_text)
    IN  IF Len(Strip(clean_text)) < MinCleanLen THEN response_text ELSE clean_text

\* Lines 382-447: what translate_to_language does with the text handed to it.
\* `handed` is that text, `calls` the texts given to translate_client.translate.
translate_to_language(text, target_language_code, bt) ==
    IF IsBlank(text)
    THEN [success |-> FALSE, translated_text |-> <<>>, handed |-> <<text>>,
          calls |-> <<>>]
    ELSE IF bt = "throws"
    THEN [success |-> FALSE, translated_text |-> text, handed |-> <<text>>,
          calls |-> <<text>>]
    ELSE [success |-> TRUE, translated_text |-> <<target_language_code>> \o text,
          handed |-> <<text>>, calls |-> <<text>>]

\* Lines 513-574.  bt = "init_raises": the agent cannot be built (line 518).
translate_response_text(response_text, target_language_code, bt) ==
    IF bt = "init_raises"
    THEN [success |-> FALSE, translated_text |-> response_text, handed |-> <<>>,
          calls |-> <<>>]
    ELSE IF LowerCode(target_language_code) \in {"en", "english"}
    THEN [success |-> TRUE, skipped |-> TRUE, translated_text |-> response_text,
          handed |-> <<>>, calls |-> <<>>]
    ELSE IF target_language_code = ""
    THEN [success |-> FALSE, translated_text |-> response_text, handed |-> <<>>,
          calls |-> <<>>]
    ELSE translate_to_language(text_to_translate(response_text),
                               target_language_code, bt)

Letters(n, gap) ==
    IF gap /\ n >= 2 THEN <<"a", " ", " ">> \o [i \in 1..(n - 1) |-> "a"]
    ELSE [i \in 1..n |-> "a"]

\* Response texts: an optional symbol, optional bold markers around n letters
\* (with a double space among them or not), trailing spaces.
ResponseTexts ==
    {(IF emoji THEN <<"#", " ">> ELSE <<>>)
         \o (IF bold THEN <<"*", "*">> ELSE <<>>) \o Letters(n, gap)
         \o (IF bold THEN <<"*", "*">> ELSE <<>>) \o [i \in 1..pad |-> " "] :
     emoji \in BOOLEAN, bold \in BOOLEAN, n \in 0..MaxLetters, gap \in BOOLEAN,
     pad \in 0..2}

TargetCodes == {"en", "EN", "ur", ""}

CleanInit ==
    /\ cache = <<>>
    /\ now = 0
    /\ pc = "idle"
    /\ req = NoReq
    /\ \E response_text \in ResponseTexts, target_language_code \in TargetCodes,
          bt \in {"init_raises", "throws", "ok"} :
          loc = [response_text |-> response_text,
                 target_language_code |-> target_language_code, bt |-> bt]
    /\ log = <<>>
    /\ resp = None
    /\ served = 0
    /\ last_op = NoOp

TranslateResponse ==
    /\ last_op.op = "none"
    /\ \E result \in {translate_response_text(loc.response_text,
                                               loc.target_language_code, loc.bt)} :
          last_op' = [op |-> "translate_response_to_user_language",
                      result |-> result]
    /\ UNCHANGED <<cache, now, pc, req, loc, log, resp, served>>

CleanNext == TranslateResponse

CleanSpec == CleanInit /\ [][CleanNext]_vars

(***************************************************************************)
(* The grade report of api_server.py lines 578-598, for the marks a grader *)
(* can return: marks_obtained is an integer the model is free to choose.   *)
(***************************************************************************)
MaxOver == 30

GradeMarks == (0 - MaxOver)..(TotalMarks + MaxOver)

GradeInit ==
    /\ cache = <<>>
    /\ now = 0
    /\ pc = "idle"
    /\ req = NoReq
    /\ \E marks \in GradeMarks, feedback \in {"graded", "no_text"} :
          loc = [pdf_result |-> [marks_obtained |-> marks,
                                 total_marks |-> TotalMarks,
                                 ai_feedback |-> feedback]]
    /\ log = <<>>
    /\ resp = None
    /\ served = 0
    /\ last_op = NoOp

\* Lines 579-598: the percentage, its band and the part reporting it.
GradeReport ==
    /\ last_op.op = "none"
    /\ LET percentage ==
               (loc.pdf_result.marks_obtained * 100) \div loc.pdf_result.total_marks
       IN  last_op' = [op |-> "grade_report", percentage |-> percentage,
                       part |-> grade_level(percentage)]
    /\ UNCHANGED <<cache, now, pc, req, loc, log, resp, served>>

GradeNext == GradeReport

GradeSpec == GradeInit /\ [][GradeNext]_vars

(***************************************************************************)
(* The lookups of the cache while the clock moves: get, the similarity     *)
(* search, the fallback generator and the cache check of the endpoint,     *)
(* among puts at any clock reading.                                        *)
(***************************************************************************)
\* "a b c", "A b c d" and "yo"
LookupMessages == {m \in SimilarMessages : Len(m) \in 2..7}

\* api_server.py lines 387-406: the cache check of chat_endpoint for a
\* message without a document, up to the response of a hit.
ChatLookup(message, t) ==
    /\ LET looked == get(cache, message, FALSE, t)
       IN  /\ cache' = looked.cache
           /\ resp' = IF looked.result # None
                      THEN ChatResponse(looked.result.success, message,
                               Annotate("[Cached Response]",
                                        looked.result.bot_response),
                               looked.result.translation_info, None, None,
                               looked.result.explanation_result,
                               looked.result.final_approved, "", t)
                      ELSE None
           /\ last_op' = [op |-> "chat_lookup", message |-> message,
                          hit |-> looked.result # None]
    /\ now' = t
    /\ UNCHANGED <<pc, req, loc, log, served>>

LookupNext ==
    \/ \E user_message \in LookupMessages, response_data \in Payloads, t \in Clock :
          CachePut(user_message, response_data, FALSE, <<>>, t)
    \/ \E user_message \in LookupMessages, t \in Clock :
          CacheGet(user_message, FALSE, t)
    \/ \E user_message \in LookupMessages : FindSimilar(user_message)
    \/ \E user_message \in LookupMessages, error_context \in ErrorContexts :
          Fallback(user_message, error_context)
    \/ \E message \in LookupMessages, t \in Clock : ChatLookup(message, t)

LookupSpec == Init /\ [][LookupNext]_vars

(***************************************************************************)
(* Properties                                                              *)
(***************************************************************************)
Has(seq, x) == \E i \in 1..Len(seq) : seq[i] = x

Count(seq, x) == Cardinality({i \in 1..Len(seq) : seq[i] = x})

\* x occurs in seq somewhere after an occurrence of y.
HasAfter(seq, y, x) == \E i, j \in 1..Len(seq) : i < j /\ seq[i] = y /\ seq[j] = x

\* The request returned through the normal return of chat_endpoint.
ReturnedNormally == pc = "done" /\ Has(log, "return:response")

\* The response parts composed from the classified intent (lines 462-504).
IntentParts ==
    {"translated_banner", "message_received", "grading_processing",
     "prompt_upload_pdf", "clarify_grading", "explanation", "explanation(apology)",
     "explanation[translated]", "explanation(apology)[translated]",
     "explanation_unavailable", "clarify_explanation", "thanks_general",
     "ack_non_english"}

GradingCalls == {"validate_pdf_blob", "grade_assignment_from_blob", "grading_llm.invoke"}

\* C1 (as the specification states it): a request writes to the cache only
\* if it had a non-empty message, no document, and its translation and
\* moderation stage succeeded with an approved verdict.
C1_CacheWriteOnlyAfterApprovedStage ==
    (pc = "done" /\ Has(log, "cache.put"))
        => (~IsBlank(req.message) /\ ~HasPdf(req) /\ Has(log, "stage:approved"))

\* C2 (as the specification states it): when the stage call reports failure
\* the response has the could-not-process part, no grading happened, and
\* final_approved is FALSE.
C2_StageFailureNotApproved ==
    (ReturnedNormally /\ Has(log, "stage:failed"))
        => /\ Has(resp.bot_response.body, "could_not_process")
           /\ \A g \in GradingCalls : ~Has(log, g)
           /\ resp.grading_result = None
           /\ resp.final_approved = FALSE

\* C3 (as the specification states it): when the moderation collaborator
\* throws, the response has success = TRUE and a fallback annotation, the
\* exception handler of the endpoint having been taken.
C3_ModerationThrowTakesErrorFallback ==
    (pc = "done" /\ Has(log, "moderation_llm.raised"))
        => /\ resp.success
           /\ resp.bot_response.prefix # <<>>
           /\ Has(log, "exception")

\* C3 (amended): when the moderation collaborator throws, the moderation
\* agent catches the exception and the stage reports failure; unless some
\* other exception reaches the handler, the endpoint returns success = TRUE
\* with the could-not-process part and no fallback annotation.  A response is
\* returned in every case.
C3_ModerationThrowIsStageFailure ==
    Has(log, "moderation_llm.raised")
        => /\ Has(log, "stage:failed")
           /\ ~HasAfter(log, "moderation_llm.raised", "openai_client.classify")
           /\ pc = "done" => resp # None
           /\ ReturnedNormally
                => /\ resp.success
                   /\ resp.bot_response.prefix = <<>>
                   /\ Has(resp.bot_response.body, "could_not_process")
                   /\ resp.moderation_info = None

C3_Witness ==
    /\ ReturnedNormally
    /\ Has(log, "moderation_llm.raised")
    /\ resp.success
    /\ Has(resp.bot_response.body, "could_not_process")

\* C4 (as the specification states it): whenever an exception reaches the
\* handler, with or without a document, the exact lookup is attempted, and
\* success = FALSE is returned only if the fallback handling itself raised.
C4_FallbackForEveryRequest ==
    (pc = "done" /\ Has(log, "exception"))
        => /\ HasAfter(log, "exception", "cache.get")
           /\ ~resp.success => Count(log, "exception") = 2

\* The entry stored for message m is present in c and not expired at time t.
LiveEntry(c, m, t) ==
    \E i \in 1..Len(c) : /\ c[i].key = _generate_key(m, FALSE)
                         /\ t - c[i].timestamp <= c[i].ttl

LiveValue(c, m) == c[IndexOf(c, _generate_key(m, FALSE))].value

\* C4 (amended): when an exception reaches the handler of a request without
\* a document, the exact lookup is made first; a live entry is returned with
\* the cached-fallback annotation and success = TRUE, otherwise the cache's
\* synthesized or similarity fallback is returned with success = TRUE; the
\* static apology with success = FALSE is returned only if the fallback
\* handling itself raised.  A request with a document gets the static apology
\* with success = FALSE and the cache is not consulted.
C4_FallbackOnlyWithoutPdf ==
    [][(InRequest /\ Has(log', "exception"))
        => LET m == fallback_message(req)
               raised_twice == Count(log', "exception") = 2
           IN  /\ pc' = "done"
               /\ IF HasPdf(req)
                  THEN /\ ~resp'.success /\ ~resp'.final_approved
                       /\ resp'.bot_response.body = <<"technical_difficulties">>
                       /\ ~HasAfter(log', "exception", "cache.get")
                       /\ ~Has(log', "cache.get_fallback_response")
                       /\ cache' = cache
                  ELSE /\ HasAfter(log', "exception", "cache.get")
                       /\ ~HasAfter(log', "cache.get_fallback_response", "cache.get")
                       /\ resp'.success = ~raised_twice
                       /\ ~resp'.success
                            => resp'.bot_response.body = <<"technical_difficulties">>
                       /\ (resp'.success /\ LiveEntry(cache, m, now'))
                            => /\ resp'.bot_response =
                                    Annotate("[Cached Fallback]",
                                             LiveValue(cache, m).bot_response)
                               /\ ~Has(log', "cache.get_fallback_response")
                       /\ (resp'.success /\ ~LiveEntry(cache, m, now'))
                            => /\ Has(log', "cache.get_fallback_response")
                               /\ resp'.bot_response.prefix = <<>>
                                  \/ resp'.bot_response.prefix[1]
                                       = "[Cached Response] similar"
                               /\ resp'.final_approved]_vars

C4_Witness ==
    /\ pc = "done"
    /\ ~HasPdf(req)
    /\ HasAfter(log, "exception", "cache.get_fallback_response")
    /\ resp.success

\* C5: when moderation rejects the message, no grading and no explanation
\* collaborator is invoked in the request, also with a document attached,
\* and the response returned has final_approved = FALSE, contains the
\* rejection notice and no part composed from the intent.
C5_RejectionStopsPipeline ==
    Has(log, "stage:rejected")
        => /\ \A g \in GradingCalls : ~Has(log, g)
           /\ ~Has(log, "explanation_agent.get_explanation")
           /\ ReturnedNormally
                => /\ resp.final_approved = FALSE
                   /\ Has(resp.bot_response.body, "rejection_notice")
                   /\ \A i \in 1..Len(resp.bot_response.body) :
                         resp.bot_response.body[i] \notin IntentParts
                   /\ resp.grading_result = None
                   /\ resp.explanation_result = None

C5_Witness ==
    /\ ReturnedNormally
    /\ Has(log, "stage:rejected")
    /\ req.pdf_file = "valid"
    /\ Has(resp.bot_response.body, "rejection_notice")

\* C6: a request whose message is empty or only whitespace and that has no
\* document returns at once with success = FALSE, final_approved = FALSE and
\* the error "Empty input"; no collaborator is called, the cache is neither
\* read nor written.
C6_EmptyInputRejected ==
    [][(served' = served + 1 /\ IsBlank(req'.message) /\ req'.pdf_file = "none")
        => /\ pc' = "done"
           /\ resp'.success = FALSE
           /\ resp'.final_approved = FALSE
           /\ resp'.error = "Empty input"
           /\ log' = <<"return:empty_input">>
           /\ cache' = cache]_vars

C6_Witness ==
    /\ pc = "done"
    /\ req.message = <<" ">>
    /\ req.pdf_file = "none"
    /\ resp.error = "Empty input"
    /\ cache # <<>>

\* C7: a message-only request whose key has a live entry returns the stored
\* reply with the cached-response annotation at once: the only events of the
\* request are the lookup and the return, and the cache is left as it was.
C7_CacheHitShortCircuits ==
    [][(served' = served + 1 /\ ~IsBlank(req'.message) /\ req'.pdf_file = "none"
        /\ LiveEntry(cache, req'.message, now'))
        => /\ pc' = "done"
           /\ resp'.bot_response =
                  Annotate("[Cached Response]",
                           LiveValue(cache, req'.message).bot_response)
           /\ resp'.final_approved = LiveValue(cache, req'.message).final_approved
           /\ log' = <<"cache.get", "return:cache_hit">>
           /\ cache' = cache]_vars

C7_Witness ==
    /\ pc = "done"
    /\ log = <<"cache.get", "return:cache_hit">>
    /\ resp.bot_response.prefix = <<"[Cached Response]">>
    /\ Len(cache) > 0
    /\ now - cache[1].timestamp = cache[1].ttl

\* C8: a moderation result produced without error is approved exactly when
\* no category is flagged and the severity is strictly below 0.3 (30
\* hundredths); severity 0.3 with no category is not approved.
C8_ApprovedIffNoFlagsAndLowSeverity ==
    (pc = "step2" /\ Has(log, "moderation_llm.invoke"))
        => /\ loc.result.moderation_approved
                = (loc.result.flagged_categories = <<>>
                   /\ loc.result.severity_score < 30)
           /\ loc.moderation_info.approved = loc.result.moderation_approved
           /\ (loc.result.flagged_categories = <<>> /\ loc.result.severity_score = 30)
                => ~loc.result.moderation_approved

C8_Witness ==
    /\ pc = "step2"
    /\ loc.result.flagged_categories = <<>>
    /\ loc.result.severity_score = 30
    /\ ~loc.result.moderation_approved

\* C9: when the detected language code is "en", the translation stage
\* returns the input text unchanged with is_english = TRUE, and the translate
\* call of the translation collaborator is not made anywhere in the request.
C9_EnglishNeverTranslated ==
    Has(log, "detected:en")
        => /\ ~Has(log, "translate_client.translate")
           /\ pc = "step2"
                => /\ loc.result.is_english
                   /\ loc.result.translated_text = req.message
                   /\ loc.translation_info = None

C9_Witness ==
    /\ ReturnedNormally
    /\ Has(log, "detected:en")
    /\ Has(log, "explanation_agent.get_explanation")
    /\ ~Has(log, "translate_client.translate")

\* C10: get(m, False) right after put(m, r, False) returns the five minimal
\* fields of r: reply text, translation info, explanation result, approval
\* flag and success flag, with the defaults of put for the missing ones.
C10_PutGetRoundTrip ==
    (last_op.op = "put" /\ last_op.message # <<>> /\ ~last_op.has_pdf)
        => LET r == last_op.payload
               got == get(cache, last_op.message, FALSE, now).result
           IN  /\ got # None
               /\ DOMAIN got = {"bot_response", "translation_info",
                                "explanation_result", "final_approved", "success"}
               /\ got.bot_response = r.bot_response
               /\ got.translation_info = FieldOr(r, "translation_info", None)
               /\ got.explanation_result = FieldOr(r, "explanation_result", None)
               /\ got.final_approved = FieldOr(r, "final_approved", TRUE)
               /\ got.success = FieldOr(r, "success", TRUE)

C10_Witness ==
    /\ last_op.op = "put"
    /\ "final_approved" \in DOMAIN last_op.payload
    /\ ~last_op.payload.final_approved
    /\ Len(cache) = max_entries
    /\ get(cache, last_op.message, FALSE, now).result # None

\* C11 (as the specification states it): after put with a TTL override t, a
\* get of the same key finds the entry while the time elapsed since the put
\* is below t and does not find it once the elapsed time is above t.
C11_TtlOverrideHonoured ==
    [][(/\ last_op.op = "put" /\ last_op.ttl # <<>>
        /\ last_op'.op = "get"
        /\ last_op'.message = last_op.message
        /\ last_op'.has_pdf = last_op.has_pdf)
        => LET elapsed == now' - now
               present == last_op'.result # None
           IN  /\ elapsed < last_op.ttl[1] => present
               /\ elapsed > last_op.ttl[1] => ~present]_vars

\* C12: after every put, in any sequence of put, get and clear, the cache
\* holds at most max_entries entries (get and clear only remove entries, so
\* the bound holds in every state).
C12_SizeAtMostMax ==
    /\ Len(cache) <= max_entries
    /\ last_op.op = "put" => Len(cache) + Len(last_op.removed) <= max_entries + 1

C12_Witness ==
    /\ last_op.op = "put"
    /\ Len(cache) = max_entries
    /\ last_op.removed # <<>>

EntriesOf(c) == {c[i] : i \in 1..Len(c)}

\* C13: a put of a new key into a full cache of unexpired entries leaves
\* exactly max_entries entries: the new entry is kept and the one entry
\* removed has the oldest timestamp.  A get never changes an entry, so reads
\* have no influence on which entry is removed.
C13_EvictsOldestInserted ==
    [][/\ (/\ last_op'.op = "put"
           /\ Len(cache) = max_entries
           /\ _generate_key(last_op'.message, last_op'.has_pdf) \notin KeysOf(cache)
           /\ \A e \in EntriesOf(cache) : now' - e.timestamp <= e.ttl)
          => /\ Len(cache') = max_entries
             /\ _generate_key(last_op'.message, last_op'.has_pdf) \in KeysOf(cache')
             /\ \E e \in EntriesOf(cache) :
                   /\ e \notin EntriesOf(cache')
                   /\ \A f \in EntriesOf(cache) : e.timestamp <= f.timestamp
                   /\ EntriesOf(cache) \ {e} \subseteq EntriesOf(cache')
       /\ last_op'.op = "get" => EntriesOf(cache') \subseteq EntriesOf(cache)]_vars

C13_Witness ==
    /\ last_op.op = "put"
    /\ Len(cache) = max_entries
    /\ Len(last_op.removed) = 1
    /\ now - last_op.removed[1].timestamp <= last_op.removed[1].ttl
    /\ \A e \in EntriesOf(cache) : last_op.removed[1].timestamp < e.timestamp

\* Jaccard overlap of two token sets at or above 30%.
Overlaps30(a, b) ==
    /\ a \cup b # {}
    /\ 10 * Cardinality(a \cap b) >= 3 * Cardinality(a \cup b)

\* C14 (as the specification states it): when a message has just been
\* stored, the similarity search for a message sharing at least 30% of the
\* tokens returns a hit, and with that entry alone in the cache the search
\* for a message sharing no token returns none.
C14_SimilarityByTokenOverlap ==
    [][(last_op.op = "put" /\ last_op'.op = "find_similar")
        => \A stored \in {Words(_normalize_key(last_op.message))},
              asked \in {Words(_normalize_key(last_op'.message))} :
              /\ Overlaps30(stored, asked) => last_op'.result # None
              /\ (Len(cache) = 1 /\ stored \cap asked = {})
                   => last_op'.result = None]_vars

\* C15 (as the specification states it): the payload returned by the
\* fallback generator has success = TRUE, for every cache state and message.
C15_FallbackAlwaysSuccessful ==
    last_op.op = "get_fallback_response" => last_op.result.success = TRUE

\* The fields of a stored entry.
WholeEntry(e) == {"value", "timestamp", "ttl", "original_message"} \subseteq DOMAIN e

\* C16: while a put runs concurrently with a get or a similarity search,
\* every entry in the cache, and every entry a reader has taken from it, has
\* all its fields: value, timestamp, ttl and original message.
C16_EntriesPublishedWhole ==
    /\ \A e \in EntriesOf(cache) : WholeEntry(e)
    /\ "entry" \in DOMAIN loc.reader => WholeEntry(loc.reader.entry)

C16_Witness ==
    /\ pc.writer \in {"cleanup", "enforce"}
    /\ pc.reader \in {"get:check", "find:next"}
    /\ "entry" \in DOMAIN loc.reader
    /\ loc.reader.entry.key = loc.writer.key
    /\ loc.reader.entry.value = loc.writer.cached_response
    /\ WholeEntry(loc.reader.entry)


\* C17: chat requests share no mutable state other than the cache.  What
\* the explanation agent sends to its provider for a request is made of the
\* system prompt and that request's text alone: nothing written while an
\* earlier request was served is read.
C17_NoStateSharedBesidesCache ==
    (last_op.op = "get_explanation" /\ last_op.caller = "chat_endpoint") =>
        last_op.messages = <<system_message,
                             [role |-> "user", content |-> last_op.user_input]>>


\* The shape of a ChatResponse: the flags are booleans, the reply is a text
\* and the timestamp a reading of the clock.
ValidResponse(r) ==
    /\ {"success", "bot_response", "final_approved", "timestamp"} \subseteq DOMAIN r
    /\ r.success \in BOOLEAN
    /\ r.final_approved \in BOOLEAN
    /\ DOMAIN r.bot_response = {"prefix", "lang", "body"}
    /\ r.timestamp \in 0..MaxTime

Returned ==
    /\ pc = "done"
    /\ ValidResponse(resp)
    /\ Len(log) > 0
    /\ log[Len(log)] \in {"return:empty_input", "return:cache_hit", "return:response",
                          "return:cached_fallback", "return:structured_fallback",
                          "return:last_resort"}

\* C18: every chat request eventually returns a structurally valid response,
\* whichever collaborator calls fail or throw; the endpoint never ends a
\* request by letting an exception out.
C18_AlwaysAnswers ==
    /\ [](pc = "done" => Returned)
    /\ (InRequest ~> Returned)

\* C18: a request whose pipeline threw and whose fallback threw as well was
\* answered.
C18_Witness ==
    /\ Returned
    /\ Count(log, "exception") = 2
    /\ resp.success = FALSE


\* The request in flight had a message detected as not English whose
\* translation the moderation stage rejected.
RejectedForeign == Has(log, "detected:other") /\ Has(log, "stage:rejected")

DocumentOnly == IsBlank(req.message) /\ HasPdf(req)

\* Only the document was worked on: no translation, moderation, intent
\* classification, back-translation or cache operation is in the log.
OnlyGradingCalls ==
    \A i \in 1..Len(log) : log[i] \in GradingCalls \cup {"compose", "return:response"}

C21_MarksWithinTotal ==
    (pc = "done" /\ resp.grading_result # None) =>
        resp.grading_result.marks_obtained <= resp.grading_result.total_marks

\* The annotations a reader of the reply sees.
CacheAnnotations == {"[Cached Response]", "[Cached Fallback]", "[Cached Response] similar"}

Annotated(reply) ==
    \/ (reply.prefix # <<>> /\ reply.prefix[1] \in CacheAnnotations)
    \/ reply.body = <<"fallback_mode">>

StartsWith(reply, tag) == reply.prefix # <<>> /\ reply.prefix[1] = tag

\* C22: a response with success = false carries an error text, and a response
\* served from the cache (the hit at the start, the cached fallback of the
\* handler) or from the fallback generator is visibly marked: its reply
\* starts with the cache annotation, or it is the generator's canned text,
\* which says of itself that it is a fallback response.
C22_FailuresExplainedCachedAnnotated ==
    pc = "done" =>
        /\ (resp.success = FALSE => resp.error # "")
        /\ (Has(log, "return:cache_hit") =>
                StartsWith(resp.bot_response, "[Cached Response]"))
        /\ (Has(log, "return:cached_fallback") =>
                StartsWith(resp.bot_response, "[Cached Fallback]"))
        /\ (Has(log, "return:structured_fallback") => Annotated(resp.bot_response))
        /\ ((Has(log, "return:response") \/ Has(log, "return:last_resort")
               \/ Has(log, "return:empty_input")) => ~Annotated(resp.bot_response))

\* C22: a request was answered from the cache with the annotation, after an
\* earlier one had been answered by the fallback generator.
C22_Witness ==
    /\ pc = "done"
    /\ Has(log, "return:cache_hit")
    /\ StartsWith(resp.bot_response, "[Cached Response]")
    /\ resp.success = TRUE

\* C22: after an exception the fallback generator answered.
C22_WitnessFallback ==
    /\ pc = "done"
    /\ Has(log, "return:structured_fallback")
    /\ resp.bot_response.body = <<"fallback_mode">>

\* A valid question as the claim defines it: the question text is not
\* empty, there are exactly four options, none of them blank, and the answer
\* index is one of 0..3.
ValidQuestion(q) ==
    /\ Len(q.question) > 0
    /\ Len(q.options) = 4
    /\ \A k \in 1..4 : \E c \in 1..Len(q.options[k]) : q.options[k][c] \notin Whitespace
    /\ q.answer_index \in 0..3

ValidPositions(mcqs) == {i \in 1..Len(mcqs) : ValidQuestion(mcqs[i])}

\* The k-th smallest member of a set of positions.
NthOf(positions, k) ==
    CHOOSE i \in positions : Cardinality({j \in positions : j <= i}) = k

\* C23: filter_to_20_questions returns the first min(20, v) valid questions
\* of its input in their original order, v being the number of valid
\* questions; no invalid question is in the output.
C23_FirstTwentyValidInOrder ==
    last_op.op = "filter_to_20_questions" =>
        \A valid \in {ValidPositions(last_op.mcqs)} :
            /\ Len(last_op.result) = Min(QuizLimit, Cardinality(valid))
            /\ \A k \in 1..Len(last_op.result) :
                   last_op.result[k] = last_op.mcqs[NthOf(valid, k)]

\* C23: a list of more than twenty valid questions with an invalid one among
\* its first twenty was cut to twenty.
C23_Witness ==
    /\ last_op.op = "filter_to_20_questions"
    /\ Len(last_op.mcqs) > QuizLimit + 1
    /\ Len(last_op.result) = QuizLimit
    /\ \E i \in 1..QuizLimit : ~ValidQuestion(last_op.mcqs[i])

\* C24: the intent classifier is invoked only for a message whose moderation
\* verdict is approved; for a rejected message it is never invoked.
C24_ClassifierOnlyWhenApproved ==
    Has(log, "openai_client.classify") =>
        (Has(log, "stage:approved") /\ ~Has(log, "stage:rejected"))

\* Every put that ended did so without an exception.
PutsWithoutError == \A self \in Threads : pc[self] = "done" => loc[self].error = ""

\* Once every put has ended the store is within its size limit.
SizeLimitAfterPuts ==
    (\A self \in Threads : pc[self] = "done") => Len(cache) <= max_entries

\* C25: concurrent puts never disturb each other: every put ends without an
\* exception in its sweep or its eviction, and once every put has ended the
\* store holds at most max_entries entries.
C25_ConcurrentPutsDoNotRace == PutsWithoutError /\ SizeLimitAfterPuts

\* The stage that the i-th logged call belongs to: 1 translate, 2 moderate,
\* 3 intent routing, 4 act, 5 compose, 6 back-translation of the composed
\* response, 7 cache write; 0 for an entry that is no stage event.  A call of
\* translate_client.translate belongs to the stage that made it.
StageOf(i) ==
    IF log[i] = "translate_client.detect_language" THEN 1
    ELSE IF log[i] = "translate_client.translate"
    THEN (IF i > 1 /\ log[i - 1] = "explanation_agent.get_explanation" THEN 4
          ELSE IF i > 1 /\ log[i - 1] = "translate_response" THEN 6
          ELSE 1)
    ELSE IF log[i] = "moderation_llm.invoke" THEN 2
    ELSE IF log[i] = "openai_client.classify" THEN 3
    ELSE IF log[i] \in GradingCalls \cup {"explanation_agent.get_explanation"} THEN 4
    ELSE IF log[i] = "compose" THEN 5
    ELSE IF log[i] = "translate_response" THEN 6
    ELSE IF log[i] = "cache.put" THEN 7
    ELSE 0

\* C26: the stage events of a request occur in the order translate, moderate,
\* intent routing, act, compose, back-translation, cache write: no event of a
\* stage is logged after an event of a later stage, and the request composes,
\* back-translates and writes the cache at most once.
C26_StagesInOrder ==
    /\ \A i, j \in 1..Len(log) :
          (i < j /\ StageOf(i) # 0 /\ StageOf(j) # 0) => StageOf(i) <= StageOf(j)
    /\ \A e \in {"compose", "translate_response", "cache.put"} : Count(log, e) <= 1

\* A request that went through all seven stages.
C26_Witness ==
    /\ pc = "done"
    /\ \A k \in 1..7 : \E i \in 1..Len(log) : StageOf(i) = k
    /\ Has(log, "return:response")

\* The calls of the endpoint into the cache.
CacheCalls == {"cache.get", "cache.put", "cache.get_fallback_response"}

\* C27: no step of a request with an attached document reads the cache or
\* changes it, on the normal path and in the exception handler alike.
C27_DocumentRequestsBypassCache ==
    [][(HasPdf(req') /\ <<pc, log>>' # <<pc, log>>) =>
           /\ cache' = cache
           /\ \A i \in 1..Len(log') : log'[i] \notin CacheCalls]_vars

\* A request with a document and a message that the cache holds a live entry
\* for ended in the exception handler.
C27_Witness ==
    /\ pc = "done"
    /\ HasPdf(req)
    /\ \E i \in 1..Len(cache) :
          /\ cache[i].key = _generate_key(req.message, FALSE)
          /\ ~Expired(cache[i], now)
    /\ Has(log, "exception")
    /\ resp # None

\* C28: when the grader is called for a request that has a message, the rubric
\* handed to it is the one built from the translated message, for an English
\* message as for any other; the default rubric is handed over only for a
\* request without a message.
C28_RubricFromMessage ==
    (pc = "respond" /\ Has(log, "grade_assignment_from_blob")) =>
        /\ ~IsBlank(req.message) => loc.rubric = "custom_rubric"
        /\ loc.rubric = "default_rubric" => IsBlank(req.message)

\* The intents the classifier is asked to choose from.
Intents == {"grading", "explanation", "general"}

\* C29: when the classifier's client is missing or its call fails, the result
\* is intent general with confidence 0; in every case the confidence lies
\* between 0 and 1 and the intent is grading, explanation or general.
C29_ClassifierResultWellFormed ==
    last_op.op = "classify_user_intent" =>
        /\ (~loc.client \/ loc.answer.kind = "throws") =>
               (last_op.intent = "general" /\ last_op.confidence = 0)
        /\ last_op.confidence \in 0..100
        /\ last_op.intent \in Intents

\* What a routing step (Step2 taken with these collaborator outcomes) did,
\* set against the classifier's result: grading is wanted only for intent
\* grading above 0.5, the explanation agent is called only for intent
\* explanation above 0.5, and an approved message whose grading is wanted
\* without a document gets the prompt to upload one.
RoutedByIntent(client, intent_out) ==
    LET intent_result == classify_user_intent(client, intent_out)
        approved == loc.result.final_approved
        parts == loc'.bot_response_parts
    IN  /\ loc'.should_grade_pdf =>
               (intent_result.intent = "grading" /\ intent_result.confidence > 50)
        /\ Has(log', "explanation_agent.get_explanation") =>
               (intent_result.intent = "explanation" /\ intent_result.confidence > 50)
        /\ (approved /\ intent_result.intent = "grading"
                     /\ intent_result.confidence > 50 /\ ~HasPdf(req)) =>
               (Has(parts, "prompt_upload_pdf") /\ ~Has(parts, "grading_processing"))

\* A routing step at a confidence of exactly 0.5 triggered neither grading nor
\* explanation and composed a request for clarification.
ClarifiesAtHalf(client, intent_out, intents) ==
    LET intent_result == classify_user_intent(client, intent_out)
    IN  (loc.result.final_approved /\ intent_result.confidence = 50
                                   /\ intent_result.intent \in intents) =>
            /\ ~loc'.should_grade_pdf
            /\ ~Has(log', "explanation_agent.get_explanation")
            /\ \E part \in {"clarify_grading", "clarify_explanation"} :
                  Has(loc'.bot_response_parts, part)

\* The grader is reached by this step (of the document section).
GraderReached == pc = "step3" /\ pc' = "respond" /\ Len(log') > Len(log)

\* C30 as stated: grading is triggered only when the intent is grading above
\* 0.5 and a document is attached, explanation only when the intent is
\* explanation above 0.5, wanted grading without a document composes the
\* prompt for a document, and a confidence of exactly 0.5 triggers neither and
\* composes a request for clarification.
C30_RoutingAsStated ==
    [][/\ (pc = "step2" /\ pc' = "step3") =>
              \A client \in BOOLEAN, healthy \in BOOLEAN, intent_out \in IntentOutcomes,
                 expl_out \in ExplainOutcomes, bt \in BackTranslateOutcomes :
                 Step2(client, healthy, intent_out, expl_out, bt) =>
                     /\ RoutedByIntent(client, intent_out)
                     /\ ClarifiesAtHalf(client, intent_out, Intents)
       /\ GraderReached => (HasPdf(req) /\ loc.should_grade_pdf)]_vars

\* C30, amended: the same for a request with a message (a document without a
\* message is graded without an intent), the request for clarification being
\* composed for the intents grading and explanation (intent general at 0.5
\* gets the general acknowledgment).
C30_Routing ==
    [][/\ (pc = "step2" /\ pc' = "step3") =>
              \A client \in BOOLEAN, healthy \in BOOLEAN, intent_out \in IntentOutcomes,
                 expl_out \in ExplainOutcomes, bt \in BackTranslateOutcomes :
                 Step2(client, healthy, intent_out, expl_out, bt) =>
                     /\ RoutedByIntent(client, intent_out)
                     /\ ClarifiesAtHalf(client, intent_out, {"grading", "explanation"})
       /\ (GraderReached /\ ~IsBlank(req.message)) =>
              (HasPdf(req) /\ loc.should_grade_pdf)]_vars

\* An approved message classified as explanation at exactly 0.5 was routed.
C30_Witness ==
    /\ pc = "step3"
    /\ Has(log, "stage:approved")
    /\ Has(log, "openai_client.classify")
    /\ Has(loc.bot_response_parts, "clarify_explanation")
    /\ ~loc.should_grade_pdf
    /\ ~Has(log, "explanation_agent.get_explanation")

\* The moderation LLM answered with something that is no JSON object.
FormatDrift == loc.llm.kind \in {"unparseable", "json_value"}

\* C31: when the moderation LLM's answer cannot be read as a structured
\* object, the moderation stage still succeeds with no flagged category and
\* confidence 0.5, and the pipeline does not fail at the moderation stage.
C31_FormatDriftTolerated ==
    /\ (last_op.op = "moderate_content" /\ FormatDrift
            /\ Has(log, "moderation_llm.invoke")) =>
           /\ last_op.result.success
           /\ last_op.result.flagged_categories = <<>>
           /\ last_op.result.confidence = 50
    /\ (last_op.op = "process_with_moderation" /\ FormatDrift
            /\ Has(log, "moderation_llm.invoke")) =>
           last_op.result.step # "moderation_failed"

\* What a Respond step appended to the log.
Appended == SubSeq(log', Len(log) + 1, Len(log'))

\* C32: the composed response is handed to the back-translation exactly when
\* the language detected for the message is not English; when that
\* translation fails or throws, the response is still returned with
\* success = true and carries the composed English reply unchanged.
C32_BackTranslationWhenForeign ==
    [][(pc = "respond" /\ Has(log', "return:response")) =>
          /\ Has(Appended, "translate_response") <=> Has(log, "detected:other")
          /\ \A bt \in BackTranslateOutcomes, t \in Clock :
                (Respond(bt, t) /\ bt = "throws") =>
                    /\ resp'.success
                    /\ resp'.error = ""
                    /\ resp'.bot_response = Compose(loc.bot_response_parts)
      ]_vars

\* The target of the back-translation is English.
EnglishTarget == loc.target_language_code \in {"en", "EN"}

\* C33: for an English target the text is returned as it came and nothing is
\* handed to the translation; for any other target, with the agent at hand,
\* the cleaned text is handed to the translation, or the text as it came when
\* fewer than 10 characters are left of it after cleaning.
C33_CleanedUnlessTooShort ==
    last_op.op = "translate_response_to_user_language" =>
        LET result == last_op.result
            clean_text == clean_formatting_for_translation(loc.response_text)
        IN  /\ EnglishTarget =>
                   /\ result.translated_text = loc.response_text
                   /\ result.handed = <<>> /\ result.calls = <<>>
            /\ (~EnglishTarget /\ loc.target_language_code # ""
                    /\ loc.bt # "init_raises") =>
                   /\ result.handed =
                          IF Len(clean_text) < 10 THEN <<loc.response_text>>
                          ELSE <<clean_text>>
                   /\ \A i \in 1..Len(result.calls) : result.calls[i] = result.handed[1]

\* A text with bold markers and a symbol, of exactly 10 characters once
\* cleaned, went to the translation cleaned.
C33_Witness ==
    /\ last_op.op = "translate_response_to_user_language"
    /\ loc.target_language_code = "ur"
    /\ Has(loc.response_text, "*") /\ Has(loc.response_text, "#")
    /\ last_op.result.calls = <<[i \in 1..10 |-> "a"]>>
    /\ last_op.result.success

\* Grading was selected for the request, by the intent or because the document
\* came without a message.
GradingSelected == IsBlank(req.message) \/ loc.should_grade_pdf

\* C34: when grading is selected and the document does not start with the PDF
\* magic bytes, the invalid-PDF part is appended, the grader is not called and
\* the response carries no grading result; a response composed from the parts
\* holds the invalid-PDF part.
C34_InvalidPdfNotGraded ==
    [][/\ (pc = "step3" /\ pc' = "respond" /\ req.pdf_file = "invalid"
               /\ GradingSelected) =>
              /\ loc'.bot_response_parts[Len(loc'.bot_response_parts)] = "invalid_pdf"
              /\ Count(loc'.bot_response_parts, "invalid_pdf") = 1
              /\ ~Has(Appended, "grade_assignment_from_blob")
              /\ ~Has(Appended, "grading_llm.invoke")
              /\ loc'.grading_result = None
       /\ (pc = "respond" /\ pc' = "done" /\ req.pdf_file = "invalid") =>
              /\ resp'.grading_result = None
              /\ (GradingSelected /\ Has(log', "return:response")) =>
                     Has(resp'.bot_response.body, "invalid_pdf")
      ]_vars

\* A request whose intent asked for grading, with a document that is no PDF,
\* was answered with the invalid-PDF part and no grading result.
C34_Witness ==
    /\ ReturnedNormally
    /\ req.pdf_file = "invalid" /\ ~IsBlank(req.message)
    /\ Has(log, "validate_pdf_blob") /\ ~Has(log, "grade_assignment_from_blob")
    /\ Has(resp.bot_response.body, "invalid_pdf")
    /\ resp.grading_result = None

\* The bands of the grade report with the percentage each starts at.
Bands ==
    <<[from |-> 90, name |-> "Excellent"], [from |-> 80, name |-> "Very Good"],
      [from |-> 70, name |-> "Good"], [from |-> 60, name |-> "Satisfactory"],
      [from |-> 50, name |-> "Needs Improvement"]>>

\* C35: the band reported is decided by the percentage alone: the highest
\* band whose threshold the percentage reaches, a percentage on a threshold
\* included, and Unsatisfactory below 50.
C35_BandByPercentage ==
    last_op.op = "grade_report" =>
        /\ \A i \in 1..Len(Bands) :
              last_op.part = Bands[i].name <=>
                  /\ last_op.percentage >= Bands[i].from
                  /\ \A j \in 1..(i - 1) : last_op.percentage < Bands[j].from
        /\ last_op.part = "Unsatisfactory" <=> last_op.percentage < 50

\* A percentage of exactly 70 was reported as Good.
C35_Witness ==
    /\ last_op.op = "grade_report"
    /\ last_op.percentage = 70
    /\ last_op.part = "Good"

\* The step is one of the cache's lookups, not a put.
LookupStep == last_op'.op \in {"get", "find_similar", "get_fallback_response", "chat_lookup"}

\* C36: get, the similarity search and the fallback generator leave every
\* stored entry as it is, get removing at most the entry of the key it looked
\* up, and only an expired one; every cache hit of the endpoint returns the
\* stored reply under exactly one cache annotation, so a hit that follows a
\* hit for the same message returns the same reply.
C36_LookupsLeavePayloads ==
    [][LookupStep =>
          /\ \A i \in 1..Len(cache') : \E j \in 1..Len(cache) : cache'[i] = cache[j]
          /\ \A j \in 1..Len(cache) :
                cache[j].key \notin KeysOf(cache') =>
                    /\ last_op'.op \in {"get", "chat_lookup"}
                    /\ cache[j].key = _generate_key(last_op'.message, FALSE)
                    /\ Expired(cache[j], now')
          /\ (last_op'.op = "chat_lookup" /\ last_op'.hit) =>
                /\ resp'.bot_response.prefix = <<"[Cached Response]">>
                /\ \E j \in 1..Len(cache') :
                      /\ cache'[j].key = _generate_key(last_op'.message, FALSE)
                      /\ resp'.bot_response = Annotate("[Cached Response]",
                                                 cache'[j].value.bot_response)
                /\ (last_op.op = "chat_lookup" /\ last_op.hit
                        /\ last_op.message = last_op'.message) =>
                       resp'.bot_response = resp.bot_response
      ]_vars

\* A message stored at clock reading 0 was served from the cache at reading 1
\* under one annotation, the stored reply still without any.
C36_Witness ==
    /\ last_op.op = "chat_lookup" /\ last_op.hit
    /\ resp.bot_response.prefix = <<"[Cached Response]">>
    /\ now = 1
    /\ \E j \in 1..Len(cache) : cache[j].timestamp = 0 /\ cache[j].value.bot_response.prefix = <<>>

\* The stored entries holding the words of the message searched for.
SameWords(user_message) ==
    {j \in 1..Len(cache) :
        Words(_normalize_key(cache[j].original_message))
            = Words(_normalize_key(user_message))}

\* C37: the similarity search takes no account of an entry's age: whenever an
\* entry with the words of the message is stored, expired or not, the search
\* returns a stored payload, that of such an entry.
C37_SimilarIgnoresTtl ==
    (last_op.op = "find_similar" /\ SameWords(last_op.message) # {}) =>
        \E j \in SameWords(last_op.message) : last_op.result = cache[j].value

\* The search returned the payload of an entry that is expired and still
\* stored, for whose key get reports nothing.
C37_Witness ==
    /\ last_op.op = "find_similar"
    /\ last_op.result # None
    /\ \A j \in 1..Len(cache) : Expired(cache[j], now)
    /\ \E j \in SameWords(last_op.message) :
          /\ last_op.result = cache[j].value
          /\ get(cache, cache[j].original_message, FALSE, now).result = None

\* C38: a pipeline result with success = false has final_approved = false; a
\* failed translation stage is followed by no moderation call; a moderation
\* result that carries an error is not approved.
C38_FailuresAreNotApproved ==
    /\ last_op.op = "process_with_moderation" =>
          /\ ~last_op.result.success => ~last_op.result.final_approved
          /\ (loc.agents_ok /\ ~process_text(loc.input_text, loc.det, loc.tr).success) =>
                /\ last_op.result.step = "translation_failed"
                /\ ~Has(log, "moderation_llm.invoke")
    /\ last_op.op = "moderate_content" =>
          /\ last_op.result.error # "" => ~last_op.result.approved
          /\ last_op.result.success <=> last_op.result.error = ""

\* The moderation model raised on a text that would otherwise pass: the
\* moderation result carries the error and is not approved.
C38_Witness ==
    /\ last_op.op = "moderate_content"
    /\ Has(log, "moderation_llm.raised")
    /\ last_op.result.error # ""
    /\ ~last_op.result.success /\ ~last_op.result.approved

\* C39: within one request the grader and the explanation agent are never
\* both called.
C39_GraderOrExplainer ==
    ~(Has(log, "grade_assignment_from_blob")
          /\ Has(log, "explanation_agent.get_explanation"))

\* A request with a message and a valid document was answered after a call of
\* the grader and none of the explanation agent.
C39_Witness ==
    /\ ReturnedNormally
    /\ ~IsBlank(req.message) /\ req.pdf_file = "valid"
    /\ Has(log, "openai_client.classify")
    /\ Has(log, "grade_assignment_from_blob")
    /\ ~Has(log, "explanation_agent.get_explanation")

\* C40: when a request reaches the composition of its reply, at least one
\* response part has been generated, so the reply of a request answered from
\* the parts is never the bare acknowledgment of completion: it is the parts
\* in the order they were generated.
C40_PartsNeverEmpty ==
    [][/\ pc' = "respond" => loc'.bot_response_parts # <<>>
       /\ (pc = "respond" /\ Has(log', "return:response")) =>
              /\ resp'.bot_response.body = loc.bot_response_parts
              /\ resp'.bot_response.body # <<"processing_completed">>
              /\ Compose(loc.bot_response_parts).body = loc.bot_response_parts
      ]_vars

\* A request whose stage call failed and that carried no document was answered
\* with the one part composed for the failure.
C40_Witness ==
    /\ ReturnedNormally
    /\ req.pdf_file = "none"
    /\ Has(log, "stage:failed")
    /\ resp.bot_response.body = <<"could_not_process">>

====
